---------------------------- MODULE Spec2Model ----------------------------
(***************************************************************************)
(* A model of two subsystems of the Go type-information toolkit:           *)
(*                                                                         *)
(*   - the declaration checker of go/types (decl.go): objDecl with its     *)
(*     white/grey/black colours and object path, cycle classification,     *)
(*     constDecl, varDecl, typeDecl, funcDecl, declStmt   (SpecChk);       *)
(*   - the structural validity check validType (decl.go)  (SpecVT);        *)
(*   - the indexed importer (iimport.go): doDecl, obj, typAt, doType       *)
(*     (SpecImp).                                                          *)
(*                                                                         *)
(* Recursive Go functions are modelled with explicit call stacks, one      *)
(* action per basic block.  The expression and type-expression checkers    *)
(* (check.expr, check.typ, check.funcType) are black boxes: what the model *)
(* keeps of them is that they may call objDecl for objects they refer to.  *)
(***************************************************************************)
EXTENDS Integers, Sequences, FiniteSets, TLC

VARIABLES
    \* ---- declaration checker (go/types/decl.go) ----
    objMap,     \* check.objMap and the objects' dynamic types: the declarations
    color,      \* Object.color_
    typ,        \* Object.typ
    objPath,    \* check.objPath
    stack,      \* the Go call stack of objDecl / declStmt activations
    errs,       \* cycles handed to check.cycleError, in order
    delayed,    \* check.delayed: the type names whose validType run is scheduled
    panicked,   \* an assert(...) or unreachable() of decl.go has failed
    initVarsCalls, \* the calls of check.initVars made by varDecl so far
    \* ---- validType (go/types/decl.go) ----
    fromRHS,    \* Named.fromRHS of the Named types of the checked package
    foreign,    \* the fromRHS, underlying and info of a Named of another package
    underlying, \* Named.underlying, as far as validType looks at it
    info,       \* Named.info
    vstack,     \* the Go call stack of validType activations
    reports,    \* cycles validType handed to check.cycleError, in order
    vnext,      \* the next type name whose delayed validType run is due
    vret,       \* the value the last validType activation returned
    \* ---- indexed importer (go/internal/gcimporter/iimport.go) ----
    declData,   \* p.declData with p.pkgIndex: the declarations and the types
    scope,      \* the local package's scope
    typCache,   \* p.typCache
    tparamIndex,\* p.tparamIndex
    interfaceList, \* p.interfaceList
    heap,       \* the type objects allocated so far, by reference
    istack,     \* the Go call stack of doDecl / typAt activations
    iret,       \* the type the last typAt activation returned
    inext,      \* the next local name of the loop over the sorted names
    imported,   \* the names for which a doDecl call has returned
    returned,   \* per offset, the types the typAt(off, nil) calls have returned
    names,      \* the sorted names of the local package (empty until collected)
    decodes,    \* the doDecl and typAt calls made so far, in order
    round,      \* 1 for the first import of the data, 2 for the second
    first,      \* the outcome of the first import, when it is over
    completed   \* the interfaces Complete was called for, in order

chkVars == <<objMap, initVarsCalls, color, typ, objPath, stack, errs, delayed, panicked>>
vtVars == <<fromRHS, foreign, underlying, info, vstack, reports, vnext, vret>>

impVars == <<declData, scope, typCache, tparamIndex, interfaceList, heap,
             istack, iret, inext, imported, returned, names, decodes, round, first,
             completed>>

\* iImportData from its call to its return
VARIABLES
    hpc,        \* the statement iImportData is at
    version,    \* version (int64), -1 until it is read
    vread,      \* the value r.uint64() returned for the version, -1 until then
    imports,    \* the caller's imports table: path -> package reference
    pkgs,       \* the packages allocated so far, by reference
    pkgList,    \* pkgList[0..i-1]
    npkgs,      \* len(pkgList)
    pkgIn,      \* pkgPath, pkgName and pkg of the loop over the package list
    hresult     \* the results (pkg, err) of the call, and whether it returned

hdrVars == <<hpc, version, vread, imports, pkgs, pkgList, npkgs, pkgIn, hresult>>

\* one call of a read primitive of the decoder
VARIABLES
    rdData,     \* the bytes of the reader (r.declReader, p.stringData)
    rdCall,     \* the primitive called, with its argument
    rdRes       \* what the call did: the value it produced, or a fault

rdVars == <<rdData, rdCall, rdRes>>

\* walkDecl on one general declaration
VARIABLES
    gen,        \* d: its token and its specs
    iota,       \* the index of the spec the loop is at
    last,       \* last: nil, or a ValueSpec (its Type and Values)
    emitted     \* the declarations passed to f, in order

walkVars == <<gen, iota, last, emitted>>

\* calls of Checker.declare on one scope
VARIABLES
    objs,       \* the objects declare was called with: name, whether Pos() is valid
    ids,        \* per object, whether declare was given an identifier (id != nil)
    bound,      \* the scope: per name, the object bound to it (0: none)
    scopePos,   \* per object, whether its scope position was set
    defs,       \* the definitions recorded: pairs of identifier and object
    declErrs    \* the errors reported, in order

declVars == <<objs, ids, bound, scopePos, defs, declErrs>>

\* calls of importReader.pos on one reader
VARIABLES
    posData,    \* the bytes of the declaration data from the reader's start on
    posVer,     \* r.p.version
    posOff,     \* the number of bytes the reader has consumed
    prevFile,   \* r.prevFile
    prevLine,   \* r.prevLine
    prevColumn, \* r.prevColumn
    posRes,     \* what the calls of pos returned, in order
    posFault    \* whether a call ended in errorf or in a run-time panic

posVars == <<posData, posVer, posOff, prevFile, prevLine, prevColumn, posRes, posFault>>

\* the 'P' case of importReader.obj on one name
VARIABLES
    subName,    \* the name of the declaration, as its runes
    subVer,     \* r.p.exportVersion
    subRes      \* what the case did with the name, <<>> until it has run

subVars == <<subName, subVer, subRes>>

\* the variables of the parts added to the first three
extVars == <<hdrVars, rdVars, walkVars, declVars, posVars, subVars>>

vars == <<chkVars, vtVars, impVars, extVars>>

\* The validity check has not been set up (the state of its variables while
\* another subsystem is explored).
VTIdle ==
    /\ fromRHS = <<>>
    /\ foreign = <<>>
    /\ underlying = <<>>
    /\ info = <<>>
    /\ vstack = <<>>
    /\ reports = <<>>
    /\ vnext = 0
    /\ vret = "none"

\* The declaration checker has not been set up.
ChkIdle ==
    /\ objMap = <<>>
    /\ initVarsCalls = 0
    /\ color = <<>>
    /\ typ = <<>>
    /\ objPath = <<>>
    /\ stack = <<>>
    /\ errs = <<>>
    /\ delayed = <<>>
    /\ panicked = FALSE

\* No import has been set up.
ImpIdle ==
    /\ declData = <<>>
    /\ scope = <<>>
    /\ typCache = <<>>
    /\ tparamIndex = <<>>
    /\ interfaceList = <<>>
    /\ heap = <<>>
    /\ istack = <<>>
    /\ iret = 0
    /\ inext = 0
    /\ imported = {}
    /\ returned = <<>>
    /\ names = <<>>
    /\ decodes = <<>>
    /\ round = 0
    /\ first = <<>>
    /\ completed = <<>>

\* iImportData has not been called.
HdrIdle ==
    /\ hpc = "idle"
    /\ version = 0
    /\ vread = 0
    /\ imports = <<>>
    /\ pkgs = <<>>
    /\ pkgList = <<>>
    /\ npkgs = 0
    /\ pkgIn = <<>>
    /\ hresult = <<>>

\* No read primitive has been called.
RdIdle ==
    /\ rdData = <<>>
    /\ rdCall = <<>>
    /\ rdRes = <<>>

\* walkDecl has not been called.
WalkIdle ==
    /\ gen = <<>>
    /\ iota = 0
    /\ last = <<>>
    /\ emitted = <<>>

\* Checker.declare has not been called.
DeclIdle ==
    /\ objs = <<>>
    /\ ids = <<>>
    /\ bound = <<>>
    /\ scopePos = <<>>
    /\ defs = {}
    /\ declErrs = <<>>

\* importReader.pos has not been called.
PosIdle ==
    /\ posData = <<>>
    /\ posVer = 0
    /\ posOff = 0
    /\ prevFile = <<>>
    /\ prevLine = 0
    /\ prevColumn = 0
    /\ posRes = <<>>
    /\ posFault = FALSE

\* No 'P' declaration has been read.
SubIdle ==
    /\ subName = <<>>
    /\ subVer = 0
    /\ subRes = <<>>

ExtIdle == HdrIdle /\ RdIdle /\ WalkIdle /\ DeclIdle /\ PosIdle /\ SubIdle

\* the variables the declaration checker's steps leave alone
notChk == <<vtVars, impVars, extVars>>

-----------------------------------------------------------------------------
(* Bounds *)

\* number of objects of the checked package (package-level and local)
NObj == 2
\* objDecl calls one evaluation of an expression or type expression may make
MaxRefs == 1

Objs == 1..NObj

-----------------------------------------------------------------------------
(* Colours and types *)

white == [c |-> "white", i |-> 0]
black == [c |-> "black", i |-> 0]
\* grey + color(i): the colour value encodes the index into the object path
grey(i) == [c |-> "grey", i |-> i]

\* Types as far as the checker's colour engine looks at them.
Ty(k) == [k |-> k, of |-> 0]
nil == Ty("nil")
Invalid == Ty("Invalid")
Basic == Ty("Basic")
Signature == Ty("Signature")
\* the *Named allocated by typeDecl for type name o
Named(o) == [k |-> "Named", of |-> o]

Last(s) == s[Len(s)]
Front(s) == SubSeq(s, 1, Len(s) - 1)
Top == Last(stack)
SetTop(f) == [stack EXCEPT ![Len(stack)] = f]

-----------------------------------------------------------------------------
(* Declarations: what collectObjects (package level) or the walked declStmt *)
(* (function local) recorded for each object.                               *)

Kinds == {"Const", "Var", "TypeName", "Func"}

\* kind:  the object's dynamic type (*Const, *Var, *TypeName, *Func)
\* alias: tdecl.Assign.IsValid() of a TypeName
\* multi: the Var is one of several names sharing one initialiser (d.lhs)
\* typed: the multi-name Var declaration has a declared type (d.vtyp)
\* local: the TypeName is declared in a function body (not in objMap)
DeclInfo == [kind : Kinds, alias : BOOLEAN, multi : BOOLEAN, typed : BOOLEAN,
             local : BOOLEAN]

lhsOf(m) == {o \in Objs : m[o].kind = "Var" /\ m[o].multi}

WellFormedDecls(m) ==
    /\ \A o \in Objs :
        /\ m[o].alias => m[o].kind = "TypeName"
        /\ m[o].local => m[o].kind = "TypeName"
        /\ m[o].multi => m[o].kind = "Var"
        /\ m[o].typed => m[o].multi
    \* one group of names with a common initialiser: at least two names, one
    \* declared type for all
    /\ Cardinality(lhsOf(m)) # 1
    /\ \A a, b \in lhsOf(m) : m[a].typed = m[b].typed

InitChk ==
    /\ objMap \in {m \in [Objs -> DeclInfo] : WellFormedDecls(m)}
    /\ initVarsCalls = 0
    /\ color = [o \in Objs |-> white]
    /\ typ = [o \in Objs |-> nil]
    /\ objPath = <<>>
    /\ stack = <<>>
    /\ errs = <<>>
    /\ delayed = <<>>
    /\ panicked = FALSE
    /\ VTIdle
    /\ ImpIdle
    /\ ExtIdle

\* One activation of objDecl (fn = "objDecl") or of declStmt's typeDecl case
\* (fn = "declStmt").  pc is the position in the code, n the objDecl calls made
\* by the evaluation in progress, last the object of the latest one, hasTyp
\* whether the declaration has a type expression, saved funcDecl's local
\* `saved`, entry the object path when the activation began.
Frame(fn, obj, pc) ==
    [fn |-> fn, obj |-> obj, pc |-> pc, n |-> 0, last |-> 0, hasTyp |-> FALSE,
     saved |-> white, entry |-> objPath]

Running == stack # <<>> /\ ~panicked

At(fn, pc) == Running /\ Top.fn = fn /\ Top.pc = pc
AtPc(pc) == Running /\ Top.pc = pc

\* assert(cond): continue with `step` or stop the checker
assert(cond, step) ==
    IF cond THEN step
    ELSE /\ panicked' = TRUE
         /\ UNCHANGED <<objMap, initVarsCalls, color, typ, objPath, stack, errs, delayed>>

Goto(pc) == stack' = SetTop([Top EXCEPT !.pc = pc, !.n = 0, !.last = 0])
Return == stack' = Front(stack)

-----------------------------------------------------------------------------
(* cycle *)

\* TypeName.IsAlias for a function-local type name
IsAlias(o) ==
    CASE typ[o].k = "nil" -> FALSE
      [] typ[o].k = "Named" -> typ[o].of # o
      [] OTHER -> TRUE

\* the loop of cycle: counts <<nval, ndef>> over cyc[j..]
RECURSIVE CountCycle(_, _, _, _)
CountCycle(cyc, j, nval, ndef) ==
    IF j > Len(cyc) THEN <<nval, ndef>>
    ELSE LET o == cyc[j]
             alias == IF ~objMap[o].local THEN objMap[o].alias ELSE IsAlias(o)
         IN  CASE objMap[o].kind \in {"Const", "Var"} ->
                    CountCycle(cyc, j + 1, nval + 1, ndef)
               [] objMap[o].kind = "TypeName" ->
                    CountCycle(cyc, j + 1, nval, IF alias THEN ndef ELSE ndef + 1)
               [] OTHER -> CountCycle(cyc, j + 1, nval, ndef)

\* the verdict of cycle: TRUE when the cycle is invalid (and reported)
CycleInvalid_AliasOnlyAllowed(nval, ndef, len) ==
    ~(nval = len \/ (nval = 0 /\ ndef >= 0))

CycleInvalid(nval, ndef, len) ==
    IF nval = len THEN FALSE
    ELSE IF nval = 0 /\ ndef > 0 THEN FALSE
    ELSE TRUE

\* check.cycle(obj): [isCycle, cycle]
cycle(obj) ==
    LET start == color[obj].i
        cyc == SubSeq(objPath, start + 1, Len(objPath))
        cnt == CountCycle(cyc, 1, 0, 0)
    IN  [isCycle |-> CycleInvalid(cnt[1], cnt[2], Len(cyc)), cycle |-> cyc]

\* cycleError(cycle), recorded as the cycle reported
cycleError(cyc) == Append(errs, cyc)

-----------------------------------------------------------------------------
(* objDecl *)

\* Checker.packageObjects: objDecl(obj, nil) for the package-level objects, in
\* the order of the object list (here: ascending); an object may be handed to
\* objDecl again after its turn.
PackageObjDecl(o) ==
    /\ stack = <<>> /\ ~panicked
    /\ ~objMap[o].local
    /\ \A p \in 1..(o - 1) : ~objMap[p].local => color[p] = black
    /\ stack' = <<Frame("objDecl", o, "enter")>>
    /\ UNCHANGED <<objMap, initVarsCalls, color, typ, objPath, errs, delayed, panicked>>

\* a white object that was given a type without going through objDecl
ObjDeclPromote ==
    /\ At("objDecl", "enter")
    /\ color[Top.obj] = white /\ typ[Top.obj] # nil
    /\ color' = [color EXCEPT ![Top.obj] = black]
    /\ Return
    /\ UNCHANGED <<objMap, initVarsCalls, typ, objPath, errs, delayed, panicked>>

BodyPc(kind) ==
    CASE kind = "Const" -> "constDecl"
      [] kind = "Var" -> "varDecl"
      [] kind = "TypeName" -> "typeDecl"
      [] kind = "Func" -> "funcDecl"

\* case white: push, paint grey + index, go on to the declaration
ObjDeclWhite ==
    /\ At("objDecl", "enter")
    /\ color[Top.obj] = white /\ typ[Top.obj] = nil
    /\ color' = [color EXCEPT ![Top.obj] = grey(Len(objPath))]
    /\ objPath' = Append(objPath, Top.obj)
    /\ Goto(BodyPc(objMap[Top.obj].kind))
    /\ UNCHANGED <<objMap, initVarsCalls, typ, errs, delayed, panicked>>

\* case black
ObjDeclBlack ==
    /\ At("objDecl", "enter")
    /\ color[Top.obj] = black
    /\ assert(typ[Top.obj] # nil,
               /\ Return
               /\ UNCHANGED <<objMap, initVarsCalls, color, typ, objPath, errs, delayed, panicked>>)

\* the type objDecl leaves in a re-entered grey object
GreyTyp_KeepOnInvalid(o, isCycle) == typ[o]

GreyTyp(o, isCycle) ==
    CASE objMap[o].kind \in {"Const", "Var"} ->
            IF isCycle \/ typ[o] = nil THEN Invalid ELSE typ[o]
      [] objMap[o].kind = "TypeName" ->
            IF isCycle THEN Invalid ELSE typ[o]
      [] OTHER -> typ[o]

\* case grey: a cycle
ObjDeclGrey ==
    /\ At("objDecl", "enter")
    /\ color[Top.obj].c = "grey"
    /\ LET o == Top.obj
           c == cycle(o)
           t == GreyTyp(o, c.isCycle)
       IN  assert(t # nil,
               /\ errs' = IF c.isCycle THEN cycleError(c.cycle) ELSE errs
               /\ typ' = [typ EXCEPT ![o] = t]
               /\ Return
               /\ UNCHANGED <<objMap, initVarsCalls, color, objPath, delayed, panicked>>)

\* the deferred check.pop().setColor(black) of objDecl
ObjDeclReturn_SetsWhite ==
    /\ At("objDecl", "ret")
    /\ color' = [color EXCEPT ![Last(objPath)] = white]
    /\ objPath' = Front(objPath)
    /\ Return
    /\ UNCHANGED <<objMap, initVarsCalls, typ, errs, delayed, panicked>>

ObjDeclReturn_NoPop ==
    /\ At("objDecl", "ret")
    /\ color' = [color EXCEPT ![Last(objPath)] = black]
    /\ Return
    /\ UNCHANGED <<objMap, initVarsCalls, typ, objPath, errs, delayed, panicked>>

ObjDeclReturn ==
    /\ At("objDecl", "ret")
    /\ color' = [color EXCEPT ![Last(objPath)] = black]
    /\ objPath' = Front(objPath)
    /\ Return
    /\ UNCHANGED <<objMap, initVarsCalls, typ, errs, delayed, panicked>>

-----------------------------------------------------------------------------
(* check.expr, check.typ, check.varType, check.definedType, check.funcType *)

EvalPcs == {"ctyp", "cinit", "vtyp", "vinit", "vinits", "arhs", "drhs", "sig"}

\* The evaluation in progress refers to object r and calls objDecl(r, def).
\* A function-local type name is in scope only once its declStmt has begun.
Callback(r) ==
    /\ Running /\ Top.pc \in EvalPcs
    /\ Top.n < MaxRefs
    /\ objMap[r].local => color[r] # white
    /\ stack' = Append(SetTop([Top EXCEPT !.n = @ + 1, !.last = r]),
                       Frame("objDecl", r, "enter"))
    /\ UNCHANGED <<objMap, initVarsCalls, color, typ, objPath, errs, delayed, panicked>>

\* the types a type expression may denote: a composite or predeclared type,
\* Typ[Invalid] after an error, or the type of the object it names
TypResults(f) == {Basic, Invalid} \cup (IF f.last # 0 THEN {typ[f.last]} ELSE {})

-----------------------------------------------------------------------------
(* constDecl *)

ConstDeclBegin ==
    /\ AtPc("constDecl")
    /\ assert(typ[Top.obj] = nil,
          /\ \E hasTyp \in BOOLEAN :
                stack' = SetTop([Top EXCEPT !.pc = IF hasTyp THEN "ctyp" ELSE "cinit",
                                            !.hasTyp = hasTyp])
          /\ UNCHANGED <<objMap, initVarsCalls, color, typ, objPath, errs, delayed, panicked>>)

\* t := check.typ(typ); a type that is no constant type ends the declaration
ConstDeclTyp ==
    /\ AtPc("ctyp")
    /\ \E t \in TypResults(Top) :
          IF t = Invalid
          THEN /\ typ' = [typ EXCEPT ![Top.obj] = Invalid]
               /\ Goto("ret")
          ELSE /\ typ' = [typ EXCEPT ![Top.obj] = t]
               /\ Goto("cinit")
    /\ UNCHANGED <<objMap, initVarsCalls, color, objPath, errs, delayed, panicked>>

\* Checker.initConst / initVar: the object gets the type of the operand, or
\* Typ[Invalid], unless it has a type already
InitTyp_LeaveNil(t, x) == t

InitTyp(t, x) == IF t = nil THEN x ELSE t

\* check.expr(&x, init) is over; check.initConst(obj, &x)
ConstDeclInit ==
    /\ AtPc("cinit")
    /\ \E x \in {Basic, Invalid} :
          typ' = [typ EXCEPT ![Top.obj] = InitTyp(typ[Top.obj], x)]
    /\ Goto("ret")
    /\ UNCHANGED <<objMap, initVarsCalls, color, objPath, errs, delayed, panicked>>

-----------------------------------------------------------------------------
(* varDecl *)

VarDeclBegin ==
    /\ AtPc("varDecl")
    /\ assert(typ[Top.obj] = nil,
          /\ \E hasTyp \in BOOLEAN :
                /\ objMap[Top.obj].multi => hasTyp = objMap[Top.obj].typed
                /\ stack' = SetTop([Top EXCEPT !.pc = IF hasTyp THEN "vtyp" ELSE "vchk",
                                               !.hasTyp = hasTyp])
          /\ UNCHANGED <<objMap, initVarsCalls, color, typ, objPath, errs, delayed, panicked>>)

\* obj.typ = check.varType(typ)
VarDeclTyp ==
    /\ AtPc("vtyp")
    /\ \E t \in TypResults(Top) : typ' = [typ EXCEPT ![Top.obj] = t]
    /\ Goto("vchk")
    /\ UNCHANGED <<objMap, initVarsCalls, color, objPath, errs, delayed, panicked>>

\* if init == nil { ... return }; the lhs of a multi-name declaration get the
\* declared type before the initialiser is looked at
VarDeclCheckInit ==
    /\ AtPc("vchk")
    /\ LET o == Top.obj
           lhs == lhsOf(objMap)
       IN  \E hasInit \in BOOLEAN :
            /\ objMap[o].multi => hasInit
            /\ IF ~hasInit
               THEN /\ typ' = IF ~Top.hasTyp THEN [typ EXCEPT ![o] = Invalid] ELSE typ
                    /\ Goto("ret")
               ELSE IF ~objMap[o].multi
               THEN /\ typ' = typ
                    /\ Goto("vinit")
               ELSE /\ typ' = IF Top.hasTyp
                              THEN [l \in Objs |-> IF l \in lhs THEN typ[o] ELSE typ[l]]
                              ELSE typ
                    /\ Goto("vinits")
            /\ initVarsCalls' = IF hasInit /\ objMap[o].multi
                                THEN initVarsCalls + 1 ELSE initVarsCalls
    /\ UNCHANGED <<objMap, color, objPath, errs, delayed, panicked>>

\* check.expr(&x, init) is over; check.initVar(obj, &x, ...)
VarDeclInitVar ==
    /\ AtPc("vinit")
    /\ \E x \in {Basic, Invalid} :
          typ' = [typ EXCEPT ![Top.obj] = InitTyp(typ[Top.obj], x)]
    /\ Goto("ret")
    /\ UNCHANGED <<objMap, initVarsCalls, color, objPath, errs, delayed, panicked>>

\* check.initVars(lhs, []ast.Expr{init}, token.NoPos): every lhs variable
\* without a type gets one
VarDeclInitVars ==
    /\ AtPc("vinits")
    /\ \E x \in {Basic, Invalid} :
          typ' = [l \in Objs |-> IF l \in lhsOf(objMap) THEN InitTyp(typ[l], x)
                                 ELSE typ[l]]
    /\ Goto("ret")
    /\ UNCHANGED <<objMap, initVarsCalls, color, objPath, errs, delayed, panicked>>

-----------------------------------------------------------------------------
(* typeDecl *)

\* check.later(validType...); an alias gets Typ[Invalid] before its right-hand
\* side is resolved, a definition its new *Named (check.newNamed).  An alias
\* with type parameters is treated as a definition.
TypeDeclBegin ==
    /\ AtPc("typeDecl")
    /\ assert(typ[Top.obj] = nil,
          /\ delayed' = Append(delayed, Top.obj)
          /\ \E tparams \in BOOLEAN :
                LET alias == objMap[Top.obj].alias /\ ~tparams
                IN  /\ typ' = [typ EXCEPT ![Top.obj] =
                                    IF alias THEN Invalid ELSE Named(Top.obj)]
                    /\ Goto(IF alias THEN "arhs" ELSE "drhs")
          /\ UNCHANGED <<objMap, initVarsCalls, color, objPath, errs, panicked>>)

\* rhs = check.varType(tdecl.Type); obj.typ = rhs
TypeDeclAlias ==
    /\ AtPc("arhs")
    /\ \E rhs \in TypResults(Top) : typ' = [typ EXCEPT ![Top.obj] = rhs]
    /\ Goto("ret")
    /\ UNCHANGED <<objMap, initVarsCalls, color, objPath, errs, delayed, panicked>>

\* rhs = check.definedType(tdecl.Type, named); fromRHS and underlying are set
\* in the Named, obj.typ stays the Named
TypeDeclDef ==
    /\ AtPc("drhs")
    /\ Goto("ret")
    /\ UNCHANGED <<objMap, initVarsCalls, color, typ, objPath, errs, delayed, panicked>>

-----------------------------------------------------------------------------
(* funcDecl *)

\* obj.typ = sig; saved := obj.color_; obj.color_ = black
FuncDeclBegin_StaysGrey ==
    /\ AtPc("funcDecl")
    /\ assert(typ[Top.obj] = nil,
          /\ typ' = [typ EXCEPT ![Top.obj] = Signature]
          /\ stack' = SetTop([Top EXCEPT !.pc = "sig", !.saved = color[Top.obj]])
          /\ UNCHANGED <<objMap, initVarsCalls, color, objPath, errs, delayed, panicked>>)
FuncDeclBegin ==
    /\ AtPc("funcDecl")
    /\ assert(typ[Top.obj] = nil,
          /\ typ' = [typ EXCEPT ![Top.obj] = Signature]
          /\ color' = [color EXCEPT ![Top.obj] = black]
          /\ stack' = SetTop([Top EXCEPT !.pc = "sig", !.saved = color[Top.obj]])
          /\ UNCHANGED <<objMap, initVarsCalls, objPath, errs, delayed, panicked>>)

\* check.funcType(sig, ...) is over; obj.color_ = saved
FuncDeclEnd_StaysBlack ==
    /\ AtPc("sig")
    /\ Goto("ret")
    /\ UNCHANGED <<objMap, initVarsCalls, color, typ, objPath, errs, delayed, panicked>>
FuncDeclEnd ==
    /\ AtPc("sig")
    /\ color' = [color EXCEPT ![Top.obj] = Top.saved]
    /\ Goto("ret")
    /\ UNCHANGED <<objMap, initVarsCalls, typ, objPath, errs, delayed, panicked>>

-----------------------------------------------------------------------------
(* declStmt, case typeDecl: a type declared in a function body.  Function  *)
(* bodies are checked after all package-level objects.                     *)

DeclStmtType(o) ==
    /\ stack = <<>> /\ ~panicked
    /\ objMap[o].local /\ color[o] = white
    /\ \A p \in Objs : ~objMap[p].local => color[p] = black
    /\ color' = [color EXCEPT ![o] = grey(Len(objPath))]
    /\ objPath' = Append(objPath, o)
    /\ stack' = <<Frame("declStmt", o, "typeDecl")>>
    /\ UNCHANGED <<objMap, initVarsCalls, typ, errs, delayed, panicked>>

\* check.pop().setColor(black)
DeclStmtReturn ==
    /\ At("declStmt", "ret")
    /\ color' = [color EXCEPT ![Last(objPath)] = black]
    /\ objPath' = Front(objPath)
    /\ Return
    /\ UNCHANGED <<objMap, initVarsCalls, typ, errs, delayed, panicked>>

-----------------------------------------------------------------------------

NextChk ==
    \/ (\E o \in Objs : PackageObjDecl(o)) /\ UNCHANGED notChk
    \/ ObjDeclPromote /\ UNCHANGED notChk
    \/ ObjDeclWhite /\ UNCHANGED notChk
    \/ ObjDeclBlack /\ UNCHANGED notChk
    \/ ObjDeclGrey /\ UNCHANGED notChk
    \/ ObjDeclReturn /\ UNCHANGED notChk
    \/ (\E r \in Objs : Callback(r)) /\ UNCHANGED notChk
    \/ ConstDeclBegin /\ UNCHANGED notChk
    \/ ConstDeclTyp /\ UNCHANGED notChk
    \/ ConstDeclInit /\ UNCHANGED notChk
    \/ VarDeclBegin /\ UNCHANGED notChk
    \/ VarDeclTyp /\ UNCHANGED notChk
    \/ VarDeclCheckInit /\ UNCHANGED notChk
    \/ VarDeclInitVar /\ UNCHANGED notChk
    \/ VarDeclInitVars /\ UNCHANGED notChk
    \/ TypeDeclBegin /\ UNCHANGED notChk
    \/ TypeDeclAlias /\ UNCHANGED notChk
    \/ TypeDeclDef /\ UNCHANGED notChk
    \/ FuncDeclBegin /\ UNCHANGED notChk
    \/ FuncDeclEnd /\ UNCHANGED notChk
    \/ (\E o \in Objs : DeclStmtType(o)) /\ UNCHANGED notChk
    \/ DeclStmtReturn /\ UNCHANGED notChk

SpecChk == InitChk /\ [][NextChk]_vars

-----------------------------------------------------------------------------
(* Properties of the colour engine *)

ColourChange(o) == color'[o] # color[o]

\* C1 as stated: every change of an object's colour is white to grey(i) or
\* grey(i) to black; in particular no object goes from white to black and no
\* black object becomes grey or white again.
C1_StrictTransitions ==
    [][\A o \in Objs : ColourChange(o) =>
            \/ color[o] = white /\ color'[o].c = "grey"
            \/ color[o].c = "grey" /\ color'[o] = black]_vars

\* C1 (amended): every change of an object's colour is white to grey(i) with i
\* the index the object gets on the object path, grey(i) to black, white to
\* black for a white object whose type is already set, or, for a Func, black
\* back to the grey(i) of its place on the object path; no object becomes
\* white again, and a Const, Var or TypeName that is black stays black.
C1_ColourTransitions ==
    [][\A o \in Objs : ColourChange(o) =>
            \/ /\ color[o] = white
               /\ color'[o] = grey(Len(objPath))
               /\ objPath' = Append(objPath, o)
            \/ color[o].c = "grey" /\ color'[o] = black
            \/ color[o] = white /\ color'[o] = black /\ typ[o] # nil
            \/ /\ color[o] = black /\ color'[o].c = "grey"
               /\ objMap[o].kind = "Func"
               /\ color'[o].i < Len(objPath) /\ objPath[color'[o].i + 1] = o]_vars

\* a Func is grey again after funcDecl held it black
C1_Witness ==
    \E o \in Objs :
        /\ objMap[o].kind = "Func" /\ color[o].c = "grey" /\ typ[o] = Signature
        /\ At("objDecl", "ret") /\ Top.obj = o

\* the activation on top of the stack returns in this step
Returns == Running /\ stack' = Front(stack)

\* C2: every objDecl call returns with the object path it was entered with,
\* the object popped at normal completion is the one pushed, and the path is
\* empty whenever no objDecl or declStmt activation is in progress.
C2_PathRestored ==
    /\ [][(Returns /\ Top.fn = "objDecl") =>
            /\ objPath' = Top.entry
            /\ Top.pc = "ret" => Last(objPath) = Top.obj]_vars
    /\ [](stack = <<>> => objPath = <<>>)

\* an objDecl called from inside a declaration has run to completion
C2_Witness ==
    /\ Running /\ Top.n > 0 /\ Top.last # Top.obj
    /\ color[Top.last] = black
    /\ objPath = Append(Top.entry, Top.obj)
    /\ objMap[Top.last].kind = "TypeName" /\ typ[Top.last] = Named(Top.last)

\* C3: a black object has a type, and no assertion of objDecl, constDecl,
\* varDecl, typeDecl or funcDecl fails.
C3_BlackHasType ==
    /\ ~panicked
    /\ \A o \in Objs : color[o] = black => typ[o] # nil

\* all objects are checked, one of them through a grey re-entry of a Const
C3_Witness ==
    /\ stack = <<>>
    /\ \A o \in Objs : color[o] = black /\ typ[o] # nil
    /\ \E o \in Objs : objMap[o].kind = "Const" /\ typ[o] = Invalid

\* objDecl is about to handle a call for a grey object
GreyReentry == At("objDecl", "enter") /\ color[Top.obj].c = "grey"

ClaimCycle == SubSeq(objPath, color[Top.obj].i + 1, Len(objPath))

ClaimDef(o) ==
    /\ objMap[o].kind = "TypeName"
    /\ IF objMap[o].local THEN typ[o] = Named(o) ELSE ~objMap[o].alias

ClaimInvalid ==
    LET cyc == ClaimCycle
        nval == Cardinality({j \in 1..Len(cyc) : objMap[cyc[j]].kind \in {"Const", "Var"}})
        ndef == Cardinality({j \in 1..Len(cyc) : ClaimDef(cyc[j])})
    IN  ~(nval = Len(cyc)) /\ ~(nval = 0 /\ ndef > 0)

\* C4: on a grey re-entry the cycle objPath[i:] is reported exactly when it is
\* neither made of values only nor free of values with at least one type
\* definition; nothing else is reported.
C4_CycleClassification ==
    [][GreyReentry =>
         errs' = IF ClaimInvalid THEN Append(errs, ClaimCycle) ELSE errs]_vars

\* a cycle of two alias type names has been reported
C4_Witness ==
    \E k \in 1..Len(errs) :
        /\ Len(errs[k]) = 2
        /\ \A j \in 1..2 : objMap[errs[k][j]].kind = "TypeName" /\ objMap[errs[k][j]].alias

\* C5: a grey re-entry classified as an invalid cycle sets the type of a
\* Const, Var or TypeName to Typ[Invalid] and leaves a Func its Signature; a
\* Func never has the type Typ[Invalid].
C5_InvalidCycleType ==
    /\ [][(GreyReentry /\ ClaimInvalid) =>
            IF objMap[Top.obj].kind = "Func"
            THEN typ'[Top.obj] = Signature
            ELSE typ'[Top.obj] = Invalid]_vars
    /\ [](\A o \in Objs : objMap[o].kind = "Func" => typ[o] \in {nil, Signature})

\* a Const that had a declared type was re-entered through a type name and
\* lost its type to Typ[Invalid]
C5_Witness ==
    /\ Len(stack) = 2 /\ errs # <<>>
    /\ objMap[stack[1].obj].kind = "Const" /\ stack[1].hasTyp
    /\ typ[stack[1].obj] = Invalid
    /\ objMap[stack[2].obj].kind = "TypeName"
    /\ stack[2].last = stack[1].obj

-----------------------------------------------------------------------------
(* validType: the structural validity check of defined types *)

\* number of Named types of the checked package
NNamed == 2
\* fields of a struct type, embedded types of an interface type
MaxFields == 2

Nameds == 1..NNamed

\* A type as validType sees it: its dynamic type k, the type name of a Named
\* (0: a Named of another package or of the Universe scope), and the types
\* it is built from (the element, the fields, the embedded types).
T(k, of, sub) == [k |-> k, of |-> of, sub |-> sub]

\* the type constructors validType does not descend into
Indirections == {"Pointer", "Slice", "Map", "Chan", "Signature"}

\* Named types (of this and of another package), a type that is neither
\* Named nor composite, and a type parameter of the enclosing function
NamedTypes == {T("Named", n, <<>>) : n \in 0..NNamed}
LeafTypes == NamedTypes \cup {T("Basic", 0, <<>>), T("TypeParam", 0, <<>>)}
IndirectTypes == {T(k, 0, <<T("Named", n, <<>>)>>) : k \in Indirections, n \in Nameds}
\* element types of arrays; field types of structs (of the indirections,
\* fields are pointers only, to keep the number of type graphs down)
ElemTypes == NamedTypes \cup {T("Basic", 0, <<>>)} \cup IndirectTypes
FieldTypes ==
    NamedTypes \cup {T("Basic", 0, <<>>)} \cup {t \in IndirectTypes : t.k = "Pointer"}
ArrayTypes == {T("Array", 0, <<e>>) : e \in ElemTypes}
SeqsUpTo(S, n) == UNION {[1..m -> S] : m \in 0..n}
StructTypes == {T("Struct", 0, fs) : fs \in SeqsUpTo(FieldTypes, MaxFields)}
InterfaceTypes == {T("Interface", 0, es) : es \in SeqsUpTo(NamedTypes, MaxFields)}
RHSTypes ==
    LeafTypes \cup IndirectTypes \cup ArrayTypes \cup StructTypes \cup InterfaceTypes

\* under(named): the forward chain "type A B; type B ..." resolved to the
\* first type that is no Named of the checked package
RECURSIVE under(_, _, _)
under(rhs, n, fuel) ==
    LET t == rhs[n] IN
    IF t.k = "Named" /\ t.of # 0 /\ fuel > 0
    THEN under(rhs, t.of, fuel - 1)
    ELSE t

\* typeDecl: named.underlying = under(named), replaced by Typ[Invalid] when
\* it is a type parameter that is not declared by this type declaration
\* (validType only asks whether the underlying type is Typ[Invalid])
typeDeclUnderlying(rhs, n) ==
    IF under(rhs, n, NNamed).k = "TypeParam" THEN "Invalid" ELSE "resolved"

\* "type A B; type B A": a chain that never reaches a type literal
RECURSIVE ChainCycle(_, _, _)
ChainCycle(rhs, n, fuel) ==
    LET t == rhs[n] IN
    /\ t.k = "Named"
    /\ t.of # 0
    /\ (fuel = 0 \/ ChainCycle(rhs, t.of, fuel - 1))

\* The state typeDecl leaves behind for the delayed validType runs: every
\* Named has its fromRHS and underlying, and no info yet.
InitVT ==
    /\ fromRHS \in {rhs \in [Nameds -> RHSTypes] :
                        \A n \in Nameds : ~ChainCycle(rhs, n, NNamed)}
    /\ underlying = [n \in Nameds |-> typeDeclUnderlying(fromRHS, n)]
    \* the Named of another package is as its own package left it: a
    \* struct with itself as a field, checked there or not
    /\ foreign \in [fromRHS : {T("Struct", 0, <<T("Named", 0, <<>>)>>)},
                    underlying : {"Invalid", "resolved"},
                    info : {"unknown", "invalid"}]
    /\ info = [n \in Nameds |-> "unknown"]
    /\ vstack = <<>>
    /\ reports = <<>>
    /\ vnext = 1
    /\ vret = "none"
    /\ ChkIdle
    /\ ImpIdle
    /\ ExtIdle
\* one activation of validType(typ, path); i counts the recursive calls it
\* has made
VFrame(t, path) == [t |-> t, path |-> path, i |-> 0]
VTop == vstack[Len(vstack)]
VRunning == vstack # <<>> /\ ~panicked

\* check.validType(sub, path) called from the innermost activation
VCall(t, path) ==
    /\ vstack' = Append([vstack EXCEPT ![Len(vstack)].i = @ + 1], VFrame(t, path))
    /\ UNCHANGED vret
\* return v
VReturn(v) ==
    /\ vstack' = Front(vstack)
    /\ vret' = v

\* the deferred action of typeDecl: check.validType(obj.typ, nil).  The
\* deferred actions run in the order of the type declarations; the type
\* names are numbered in that order.
DelayedValidType ==
    /\ vstack = <<>>
    /\ ~panicked
    /\ vnext <= NNamed
    /\ vstack' = <<VFrame(T("Named", vnext, <<>>), <<>>)>>
    /\ vnext' = vnext + 1
    /\ UNCHANGED <<fromRHS, foreign, underlying, info, reports, vret, panicked>>

\* case *Array
IsArray_AlsoPointer(t) == t.k \in {"Array", "Pointer"}
IsArray(t) == t.k = "Array"

\* case *Array: return check.validType(t.elem, path)
VTArray ==
    /\ VRunning
    /\ IsArray(VTop.t)
    /\ IF VTop.i = 0
       THEN VCall(VTop.t.sub[1], VTop.path)
       ELSE VReturn(vret)
    /\ UNCHANGED <<fromRHS, foreign, underlying, info, reports, vnext, panicked>>

\* case *Struct, case *Interface: the loop over the fields / embeddeds,
\* left at the first invalid one; falls through to "return valid"
VTEach(kind) ==
    /\ VRunning
    /\ VTop.t.k = kind
    /\ IF VTop.i > 0 /\ vret = "invalid"
       THEN VReturn("invalid")
       ELSE IF VTop.i < Len(VTop.t.sub)
            THEN VCall(VTop.t.sub[VTop.i + 1], VTop.path)
            ELSE VReturn("valid")
    /\ UNCHANGED <<fromRHS, foreign, underlying, info, reports, vnext, panicked>>

VTStruct == VTEach("Struct")
VTInterface == VTEach("Interface")

\* case *Named, t.obj.pkg != check.pkg: return valid
VTNamedForeign_Touches ==
    /\ VRunning
    /\ VTop.t.k = "Named"
    /\ VTop.t.of = 0
    /\ LET v == IF foreign.underlying = "Invalid" THEN "invalid" ELSE "valid" IN
           /\ foreign' = [foreign EXCEPT !.info = v]
           /\ VReturn(v)
    /\ UNCHANGED <<fromRHS, underlying, info, reports, vnext, panicked>>
VTNamedForeign ==
    /\ VRunning
    /\ VTop.t.k = "Named"
    /\ VTop.t.of = 0
    /\ VReturn("valid")
    /\ UNCHANGED <<fromRHS, foreign, underlying, info, reports, vnext, panicked>>

\* the Named of this package the innermost activation is about
VNamed(n) ==
    /\ VRunning
    /\ VTop.t.k = "Named"
    /\ VTop.t.of = n
    /\ n # 0

\* t.underlying == Typ[Invalid]: t.info = invalid; return invalid
VTNamedInvalid ==
    \E n \in Nameds :
        /\ VNamed(n)
        /\ VTop.i = 0
        /\ underlying[n] = "Invalid"
        /\ info' = [info EXCEPT ![n] = "invalid"]
        /\ VReturn("invalid")
        /\ UNCHANGED <<fromRHS, foreign, underlying, reports, vnext, panicked>>

\* case unknown: t.info = marked; check.validType(t.fromRHS, append(path, t.obj))
VTNamedUnknown ==
    \E n \in Nameds :
        /\ VNamed(n)
        /\ VTop.i = 0
        /\ underlying[n] # "Invalid"
        /\ info[n] = "unknown"
        /\ info' = [info EXCEPT ![n] = "marked"]
        /\ VCall(fromRHS[n], Append(VTop.path, n))
        /\ UNCHANGED <<fromRHS, foreign, underlying, reports, vnext, panicked>>

\* ... t.info = <the result of that call>; return t.info
VTNamedDone_KeepsMark ==
    \E n \in Nameds :
        /\ VNamed(n)
        /\ VTop.i = 1
        /\ VReturn(vret)
        /\ UNCHANGED <<fromRHS, foreign, underlying, info, reports, vnext, panicked>>
VTNamedDone ==
    \E n \in Nameds :
        /\ VNamed(n)
        /\ VTop.i = 1
        /\ info' = [info EXCEPT ![n] = vret]
        /\ VReturn(vret)
        /\ UNCHANGED <<fromRHS, foreign, underlying, reports, vnext, panicked>>

\* for i, tn := range path { if tn == t.obj { ... path[i:] ... } }
CycleFrom_WholePath(path, n) == path
CycleFrom(path, n) ==
    LET i == CHOOSE i \in 1..Len(path) :
                 path[i] = n /\ \A j \in 1..(i - 1) : path[j] # n
    IN SubSeq(path, i, Len(path))

\* case marked: the cycle is reported from the first occurrence of t.obj in
\* path, t.info = invalid, return invalid; panic("cycle start not found")
VTNamedMarked ==
    \E n \in Nameds :
        /\ VNamed(n)
        /\ VTop.i = 0
        /\ underlying[n] # "Invalid"
        /\ info[n] = "marked"
        /\ IF \E i \in 1..Len(VTop.path) : VTop.path[i] = n
           THEN /\ reports' = Append(reports, CycleFrom(VTop.path, n))
                /\ info' = [info EXCEPT ![n] = "invalid"]
                /\ VReturn("invalid")
                /\ UNCHANGED panicked
           ELSE /\ panicked' = TRUE
                /\ UNCHANGED <<reports, info, vstack, vret>>
        /\ UNCHANGED <<fromRHS, foreign, underlying, vnext>>

\* info is valid or invalid: return t.info
VTNamedKnown ==
    \E n \in Nameds :
        /\ VNamed(n)
        /\ VTop.i = 0
        /\ underlying[n] # "Invalid"
        /\ info[n] \in {"valid", "invalid"}
        /\ VReturn(info[n])
        /\ UNCHANGED <<fromRHS, foreign, underlying, info, reports, vnext, panicked>>

\* any other type: return valid
VTOther ==
    /\ VRunning
    /\ ~IsArray(VTop.t)
    /\ VTop.t.k \notin {"Struct", "Interface", "Named"}
    /\ VReturn("valid")
    /\ UNCHANGED <<fromRHS, foreign, underlying, info, reports, vnext, panicked>>

\* the variables validType's steps leave alone
notVT == <<objMap, initVarsCalls, color, typ, objPath, stack, errs, delayed, impVars, extVars>>

NextVT ==
    \/ DelayedValidType /\ UNCHANGED notVT
    \/ VTArray /\ UNCHANGED notVT
    \/ VTStruct /\ UNCHANGED notVT
    \/ VTInterface /\ UNCHANGED notVT
    \/ VTNamedForeign /\ UNCHANGED notVT
    \/ VTNamedInvalid /\ UNCHANGED notVT
    \/ VTNamedUnknown /\ UNCHANGED notVT
    \/ VTNamedDone /\ UNCHANGED notVT
    \/ VTNamedMarked /\ UNCHANGED notVT
    \/ VTNamedKnown /\ UNCHANGED notVT
    \/ VTOther /\ UNCHANGED notVT

SpecVT == InitVT /\ [][NextVT]_vars

-----------------------------------------------------------------------------
(* Properties of validType *)

\* all delayed validType runs have finished
VTDone == vstack = <<>> /\ vnext > NNamed /\ ~panicked

\* the Named types of the checked package a type refers to through Array
\* elements, Struct fields and Interface embeddeds only
RECURSIVE Refs(_)
Refs(t) ==
    IF t.k = "Named" THEN (IF t.of = 0 THEN {} ELSE {t.of})
    ELSE IF t.k \in {"Array", "Struct", "Interface"}
         THEN UNION {Refs(t.sub[i]) : i \in 1..Len(t.sub)}
         ELSE {}

\* a's right-hand side refers to b without an indirection
Edge(a, b) == b \in Refs(fromRHS[a])

\* the Named types reached from the types in S by one or more such steps
RECURSIVE ReachedFrom(_, _)
ReachedFrom(S, fuel) ==
    LET N1 == {b \in Nameds : \E a \in S : Edge(a, b)} IN
    IF fuel = 0 THEN {} ELSE N1 \cup ReachedFrom(N1, fuel - 1)

Reached(n) == ReachedFrom({n}, NNamed)
\* n's right-hand side reaches n itself without an indirection
OnCycle(n) == n \in Reached(n)
\* validType(n) can come to a Named whose underlying type is already Invalid
MeetsInvalid(n) == \E m \in Reached(n) \cup {n} : underlying[m] = "Invalid"

Range(s) == {s[i] : i \in DOMAIN s}
ReportsOf(n) == {i \in DOMAIN reports : n \in Range(reports[i])}

\* r is a cycle of the type graph, each type on it once
IsCycle(r) ==
    /\ r # <<>>
    /\ \A i, j \in DOMAIN r : r[i] = r[j] => i = j
    /\ \A i \in DOMAIN r : Edge(r[i], r[IF i = Len(r) THEN 1 ELSE i + 1])

\* C6 (as stated): once the delayed runs are over, every Named type of the
\* package whose right-hand side reaches the type itself through Array
\* elements, Struct fields, Interface embeddeds and Named expansion only has
\* been marked invalid and its cycle has been reported, exactly once.
C6_CycleReportedOnce ==
    VTDone =>
        \A n \in Nameds :
            OnCycle(n) => info[n] = "invalid" /\ Cardinality(ReportsOf(n)) = 1

\* C6 (amended): every report is a cycle of the type graph, starting at the
\* re-encountered type and made of types marked invalid by the end of the
\* run; no type is on two reports; once the delayed runs are over every type
\* on a structural cycle is invalid, and, unless validType could come to a
\* Named whose underlying type is already Invalid, it is on a reported cycle
\* or reaches one.
C6_CycleReported ==
    /\ \A i \in DOMAIN reports : IsCycle(reports[i])
    /\ \A i, j \in DOMAIN reports :
           i # j => Range(reports[i]) \cap Range(reports[j]) = {}
    /\ vstack = <<>> =>
           \A i \in DOMAIN reports : \A n \in Range(reports[i]) : info[n] = "invalid"
    /\ VTDone =>
           \A n \in Nameds :
               OnCycle(n) =>
                   /\ info[n] = "invalid"
                   /\ ~MeetsInvalid(n) =>
                          \E m \in Reached(n) : ReportsOf(m) # {}

\* a cycle of two types has been reported, and the run for the second type
\* of the cycle is over
C6_Witness ==
    /\ VTDone
    /\ Len(reports) = 1
    /\ Len(reports[1]) = 2
    /\ \A n \in Nameds : OnCycle(n) /\ ~MeetsInvalid(n)

\* C7 (as stated): a Named type whose info is invalid has the underlying
\* type Typ[Invalid].
C7_InvalidUnderlying ==
    \A n \in DOMAIN info : info[n] = "invalid" => underlying[n] = "Invalid"

NoStructuralCycle == \A n \in Nameds : ~OnCycle(n)
\* a top-level validType run has just returned
VTReturned == vstack = <<>> /\ vnext > 1 /\ ~panicked

\* C8 (as stated): in a type graph in which every cycle passes through a
\* Pointer, Slice, Map, Chan or Signature, validType reports nothing and
\* returns valid.
C8_IndirectCyclesValid ==
    (vnext > 0 /\ NoStructuralCycle) =>
        /\ reports = <<>>
        /\ VTReturned => vret = "valid"

\* C8 (amended): in such a type graph validType reports nothing, never runs
\* for the element of a Pointer, Slice, Map, Chan or Signature, and returns
\* valid unless it comes to a Named whose underlying type is already Invalid.
C8_IndirectCyclesNotReported ==
    /\ \A i \in 2..Len(vstack) : vstack[i - 1].t.k \notin Indirections
    /\ (vnext > 0 /\ NoStructuralCycle) =>
           /\ reports = <<>>
           /\ VTReturned => (vret = "valid" <=> ~MeetsInvalid(vnext - 1))

\* type A struct { b *B }; type B struct { a *A } has been found valid
C8_Witness ==
    /\ VTDone
    /\ NoStructuralCycle
    /\ \A n \in Nameds :
           /\ fromRHS[n].k = "Struct"
           /\ \E i \in DOMAIN fromRHS[n].sub :
                  /\ fromRHS[n].sub[i].k = "Pointer"
                  /\ fromRHS[n].sub[i].sub[1].of # n
           /\ info[n] = "valid"
    /\ vret = "valid"
    /\ reports = <<>>

-----------------------------------------------------------------------------
(* The indexed importer: doDecl, obj, typAt, doType *)

\* number of declarations of the local package
NDecl == 2
\* number of type offsets of the declaration data besides the predeclared one
NOff == 2
\* element types read by one struct, signature or interface type
MaxElems == 1

\* the names of the local package's index, numbered in sorted order
DeclNames == 1..NDecl
\* the offsets of types in the declaration data; 0 stands for the offsets
\* below predeclReserved
Offs == 1..NOff
AllOffs == 0..NOff

\* One type as doType reads it: its kind tag, the name of a defined type or
\* type parameter (0: none), and the offsets of the types read with r.typ().
TypeData(kind, name, subs) == [kind |-> kind, name |-> name, subs |-> subs]

TypeChoices ==
    {TypeData(k, n, <<>>) : k \in {"defined", "typeParam"}, n \in DeclNames}
    \cup {TypeData("pointer", 0, <<s>>) : s \in AllOffs}
    \cup {TypeData(k, 0, ss) : k \in {"struct", "signature", "interface"},
                               ss \in SeqsUpTo(AllOffs, MaxElems)}

\* the offsets reached from the offsets in S by r.typ() alone
RECURSIVE SubOffs(_, _, _)
SubOffs(ty, S, fuel) ==
    LET N1 == {o \in Offs : \E a \in S : \E i \in DOMAIN ty[a].subs : ty[a].subs[i] = o}
    IN IF fuel = 0 THEN {} ELSE N1 \cup SubOffs(ty, N1, fuel - 1)

\* What the exporter writes: each type has one offset, an interface embeds
\* defined types and interfaces, and a type does not contain itself other
\* than through a declaration.
WellFormedTypes(ty) ==
    \A o \in Offs :
        /\ \A o2 \in Offs : ty[o2] = ty[o] => o2 = o
        /\ ty[o].kind = "interface" =>
               \A i \in DOMAIN ty[o].subs :
                   ty[o].subs[i] # 0 /\ ty[ty[o].subs[i]].kind \in {"defined", "interface"}
        /\ o \notin SubOffs(ty, {o}, NOff)

\* One declaration as obj reads it: its tag; typ, the offset of the type it
\* reads (the aliased type, the type of the constant or variable, the type
\* of the function's parameter, the underlying type, the constraint); tp, the
\* offset of the type parameter of a G or U declaration (0: none); recv, the
\* offset of the receiver type of the method of a T or U declaration (0: no
\* method).
Decl(tag, t, tp, recv) == [tag |-> tag, typ |-> t, tp |-> tp, recv |-> recv]

\* the declarations name n can have, given the types: a constant has a
\* predeclared type; the type parameter of a G or U declaration is a type
\* parameter; the underlying type of a T or U declaration is any type (the
\* exporter writes no defined type there, other data can hold one); the
\* receiver of n's method is n.  UnknownTag stands for the tag
\* bytes obj has no case for.
UnknownTag == "Z"
KnownTags == {"A", "C", "F", "G", "T", "U", "P", "V"}
DeclChoices(ty, n) ==
    LET tps == {o \in Offs : ty[o].kind = "typeParam"}
        unders == AllOffs
        recvs == {0} \cup {o \in Offs : ty[o].kind = "defined" /\ ty[o].name = n}
    IN {Decl(tag, t, 0, 0) : tag \in {"A", "V", "F", "P"}, t \in AllOffs}
       \cup {Decl("C", 0, 0, 0)}
       \cup {Decl(UnknownTag, 0, 0, 0)}
       \cup {Decl("G", t, tp, 0) : t \in AllOffs, tp \in tps}
       \cup {Decl("T", t, 0, rc) : t \in unders, rc \in recvs}
       \cup {Decl("U", t, tp, rc) : t \in unders, tp \in tps, rc \in recvs}

\* a defined type names a T or U declaration and a type parameter a P
\* declaration; each offset is referred to
WellFormedIndex(dc, ty) ==
    /\ \A n \in DeclNames : dc[n] \in DeclChoices(ty, n)
    /\ \A o \in Offs :
           /\ ty[o].kind = "defined" => dc[ty[o].name].tag \in {"T", "U"}
           /\ ty[o].kind = "typeParam" => dc[ty[o].name].tag = "P"
           /\ \/ \E n \in DeclNames : o \in {dc[n].typ, dc[n].tp, dc[n].recv}
              \/ \E o2 \in Offs : \E i \in DOMAIN ty[o2].subs : ty[o2].subs[i] = o

\* A type object: its dynamic type k; the declaration a Named or a TypeParam
\* was made for; the references of its element types; the reference of a
\* Named's underlying type (0: not yet set).
TypeObj(k, of, sub, under_) == [k |-> k, of |-> of, sub |-> sub, under |-> under_]
\* the reference of the predeclared type (the first object of the heap)
PredeclRef == 1

\* iImportData up to the loop over the sorted names: the predeclared types
\* are in typCache, nothing is declared
InitImp ==
    /\ \E ty \in {ty \in [Offs -> TypeChoices] : WellFormedTypes(ty)} :
       \E dc \in {dc \in [DeclNames -> UNION {DeclChoices(ty, n) : n \in DeclNames}] :
                      WellFormedIndex(dc, ty)} :
           declData = [decls |-> dc, types |-> ty]
    /\ scope = [n \in DeclNames |-> [obj |-> "none", typ |-> 0]]
    /\ typCache = [o \in {0} |-> PredeclRef]
    /\ tparamIndex = <<>>
    /\ interfaceList = <<>>
    /\ heap = <<TypeObj("Basic", 0, <<>>, 0)>>
    /\ istack = <<>>
    /\ iret = 0
    /\ inext = 1
    /\ imported = {}
    /\ returned = [o \in AllOffs |-> {}]
    /\ names = <<>>
    /\ decodes = <<>>
    /\ round = 1
    /\ first = <<>>
    /\ completed = <<>>
    /\ ChkIdle
    /\ VTIdle
    /\ ExtIdle

\* One activation: fn "decl" is doDecl(pkg, name) with the obj(name) it runs,
\* fn "typ" is typAt(off, base) with the doType(base) it runs.  i counts
\* the element types read, acc holds them, ref is the Named or TypeParam the
\* declaration has allocated.
IFrame(fn, name, off, base) ==
    [fn |-> fn, name |-> name, off |-> off, base |-> base,
     pc |-> "start", i |-> 0, acc |-> <<>>, ref |-> 0]
ITop == istack[Len(istack)]
IAt(fn, pc) == istack # <<>> /\ ~panicked /\ ITop.fn = fn /\ ITop.pc = pc
\* the declaration and the type the innermost activation reads
TopDecl == declData.decls[ITop.name]
TopType == declData.types[ITop.off]

\* a call from the innermost activation, which goes on at pc
ICallOf(upd, pc, callee) ==
    /\ istack' = Append([istack EXCEPT ![Len(istack)] = [upd EXCEPT !.pc = pc]], callee)
    /\ decodes' = Append(decodes, <<callee.fn, callee.name, callee.off>>)
ICall(callee, pc) == ICallOf(ITop, pc, callee)

isInterface(h, t) == h[t].k = "Interface"
\* Type.Underlying(): of a Named, its underlying type (0 while it is not set)
Underlying_Self(h, t) == t
Underlying(h, t) == IF h[t].k = "Named" THEN h[t].under ELSE t

\* m[k] = v
MapSet(m, k, v) == [x \in DOMAIN m \cup {k} |-> IF x = k THEN v ELSE m[x]]

\* sort.Strings(names), by insertion; the names are numbered in the order of
\* the strings
RECURSIVE SortStrings(_)
SortStrings_Unsorted(s) == s
SortStrings(s) ==
    IF s = <<>> THEN <<>>
    ELSE LET rest == SortStrings(Front(s))
             x == Last(s)
         IN SelectSeq(rest, LAMBDA y : y <= x) \o <<x>> \o SelectSeq(rest, LAMBDA y : y > x)

\* the orders in which range can yield the keys of p.pkgIndex[localpkg]
MapOrders == {s \in [DeclNames -> DeclNames] : \A n \in DeclNames : \E i \in DeclNames : s[i] = n}

\* for name := range p.pkgIndex[localpkg] { names = append(names, name) };
\* sort.Strings(names)
CollectNames ==
    /\ names = <<>>
    /\ ~panicked
    /\ \E order \in MapOrders : names' = SortStrings(order)
    /\ UNCHANGED <<round, first, completed, declData, scope, typCache, tparamIndex, interfaceList,
                   heap, istack, iret, inext, imported, returned, decodes, panicked>>

\* for _, name := range names { p.doDecl(localpkg, name) }
ImportNext ==
    /\ names # <<>>
    /\ istack = <<>>
    /\ ~panicked
    /\ inext <= NDecl
    /\ istack' = <<IFrame("decl", names[inext], 0, 0)>>
    /\ decodes' = Append(decodes, <<"decl", names[inext], 0>>)
    /\ inext' = inext + 1
    /\ UNCHANGED <<names, round, first, completed,
                   declData, scope, typCache, tparamIndex, interfaceList, heap,
                   iret, imported, returned, panicked>>

\* for _, typ := range p.interfaceList { typ.Complete() } and the rest of
\* iImportData
ImportDone ==
    /\ istack = <<>>
    /\ ~panicked
    /\ inext = NDecl + 1
    /\ inext' = inext + 1
    /\ completed' = interfaceList
    /\ UNCHANGED <<decodes, names, round, first,
                   declData, scope, typCache, tparamIndex, interfaceList, heap,
                   istack, iret, imported, returned, panicked>>

\* return from doDecl
DeclReturn ==
    /\ istack' = Front(istack)
    /\ decodes' = decodes
    /\ imported' = imported \cup {ITop.name}

\* doDecl: pkg.Scope().Lookup(name) != nil
Declared(name) == scope[name].obj # "none"

\* doDecl: the declaration is already imported: return
DoDeclDeclared ==
    /\ IAt("decl", "start")
    /\ Declared(ITop.name)
    /\ DeclReturn
    /\ UNCHANGED <<names, round, first, completed,
                   declData, scope, typCache, tparamIndex, interfaceList, heap,
                   iret, inext, returned, panicked>>

\* r.declare(obj): Scope.Insert leaves an object already bound in place
declare(name, kind, t) ==
    scope' = IF scope[name].obj = "none"
             THEN [scope EXCEPT ![name] = [obj |-> kind, typ |-> t]]
             ELSE scope

\* case 'A', 'C', 'V': typ := r.typ()
ObjTyp ==
    /\ IAt("decl", "start")
    /\ ~Declared(ITop.name)
    /\ TopDecl.tag \in {"A", "C", "V"}
    /\ ICall(IFrame("typ", 0, TopDecl.typ, 0), "declare")
    /\ UNCHANGED <<names, round, first, completed,
                   declData, scope, typCache, tparamIndex, interfaceList, heap,
                   iret, inext, imported, returned, panicked>>

ObjKind(tag) ==
    CASE tag = "A" -> "TypeName"
      [] tag = "C" -> "Const"
      [] tag = "V" -> "Var"

\* r.declare(types.NewTypeName / NewConst / NewVar(pos, r.currPkg, name, typ))
ObjDeclare ==
    /\ IAt("decl", "declare")
    /\ declare(ITop.name, ObjKind(TopDecl.tag), iret)
    /\ DeclReturn
    /\ UNCHANGED <<names, round, first, completed,
                   declData, typCache, tparamIndex, interfaceList, heap,
                   iret, inext, returned, panicked>>

\* case 'G', 'U': tparams = r.tparamList()
ObjTParamList ==
    /\ IAt("decl", "start")
    /\ ~Declared(ITop.name)
    /\ TopDecl.tag \in {"G", "U"}
    /\ ICall(IFrame("typ", 0, TopDecl.tp, 0), "tparams")
    /\ UNCHANGED <<names, round, first, completed,
                   declData, scope, typCache, tparamIndex, interfaceList, heap,
                   iret, inext, imported, returned, panicked>>

\* case 'F', 'G': sig := r.signature(nil), which reads the parameter's type
ObjSignature ==
    /\ \/ IAt("decl", "start") /\ ~Declared(ITop.name) /\ TopDecl.tag = "F"
       \/ IAt("decl", "tparams") /\ TopDecl.tag = "G"
    /\ ICallOf([ITop EXCEPT !.acc = IF TopDecl.tag = "G" THEN <<iret>> ELSE <<>>],
               "sig", IFrame("typ", 0, TopDecl.typ, 0))
    /\ UNCHANGED <<names, round, first, completed,
                   declData, scope, typCache, tparamIndex, interfaceList, heap,
                   iret, inext, imported, returned, panicked>>

\* sig.SetTParams(tparams); r.declare(types.NewFunc(pos, r.currPkg, name, sig))
ObjFunc ==
    /\ IAt("decl", "sig")
    /\ heap' = Append(heap, TypeObj("Signature", 0, ITop.acc \o <<iret>>, 0))
    /\ declare(ITop.name, "Func", Len(heap) + 1)
    /\ DeclReturn
    /\ UNCHANGED <<names, round, first, completed,
                   declData, typCache, tparamIndex, interfaceList,
                   iret, inext, returned, panicked>>

\* case 'T', 'U': the stub is declared before the underlying type is read:
\* named := types.NewNamed(obj, nil, nil); r.declare(obj);
\* r.p.typAt(r.uint64(), named)
ObjNamedStub ==
    /\ \/ IAt("decl", "start") /\ ~Declared(ITop.name) /\ TopDecl.tag = "T"
       \/ IAt("decl", "tparams") /\ TopDecl.tag = "U"
    /\ heap' = Append(heap, TypeObj("Named", ITop.name, <<>>, 0))
    /\ declare(ITop.name, "TypeName", Len(heap) + 1)
    /\ ICallOf([ITop EXCEPT !.ref = Len(heap) + 1,
                            !.acc = IF TopDecl.tag = "U" THEN <<iret>> ELSE <<>>],
               "underlying", IFrame("typ", 0, TopDecl.typ, Len(heap) + 1))
    /\ UNCHANGED <<names, round, first, completed,
                   declData, typCache, tparamIndex, interfaceList,
                   iret, inext, imported, returned, panicked>>

\* types.Named.SetUnderlying panics when it is given a nil underlying type
\* (a Named whose underlying type is not set yet has none)
SetUnderlyingPanics(u) == u = 0

\* underlying := ....Underlying(); named.SetUnderlying(underlying); then the
\* method, if the underlying type is no interface: its receiver is read with
\* r.param()
ObjNamedUnderlying ==
    /\ IAt("decl", "underlying")
    /\ LET u == Underlying(heap, iret) IN
       IF SetUnderlyingPanics(u)
       THEN /\ panicked' = TRUE
            /\ UNCHANGED <<heap, istack, imported, decodes>>
       ELSE /\ heap' = [heap EXCEPT ![ITop.ref].under = u]
            /\ IF ~isInterface(heap, u) /\ TopDecl.recv # 0
               THEN /\ ICall(IFrame("typ", 0, TopDecl.recv, 0), "method")
                    /\ UNCHANGED imported
               ELSE DeclReturn
            /\ UNCHANGED panicked
    /\ UNCHANGED <<names, round, first, completed,
                   declData, scope, typCache, tparamIndex, interfaceList,
                   iret, inext, returned>>

\* named.AddMethod(types.NewFunc(mpos, r.currPkg, mname, msig))
ObjNamedMethod ==
    /\ IAt("decl", "method")
    /\ heap' = [heap EXCEPT ![ITop.ref].sub = Append(@, iret)]
    /\ DeclReturn
    /\ UNCHANGED <<names, round, first, completed,
                   declData, scope, typCache, tparamIndex, interfaceList,
                   iret, inext, returned, panicked>>

\* case 'P': t := types.NewTypeParam(tn, nil); r.p.tparamIndex[id] = t;
\* r.typ() for the constraint.  Nothing is declared in the scope.
ObjTypeParam ==
    /\ IAt("decl", "start")
    /\ ~Declared(ITop.name)
    /\ TopDecl.tag = "P"
    /\ heap' = Append(heap, TypeObj("TypeParam", ITop.name, <<>>, 0))
    /\ tparamIndex' = MapSet(tparamIndex, ITop.name, Len(heap) + 1)
    /\ ICallOf([ITop EXCEPT !.ref = Len(heap) + 1], "constraint",
               IFrame("typ", 0, TopDecl.typ, 0))
    /\ UNCHANGED <<names, round, first, completed,
                   declData, scope, typCache, interfaceList,
                   iret, inext, imported, returned, panicked>>

\* t.SetConstraint(r.typ())
ObjTypeParamConstraint ==
    /\ IAt("decl", "constraint")
    /\ heap' = [heap EXCEPT ![ITop.ref].under = iret]
    /\ DeclReturn
    /\ UNCHANGED <<names, round, first, completed,
                   declData, scope, typCache, tparamIndex, interfaceList,
                   iret, inext, returned, panicked>>

\* default: errorf("unexpected tag: %v", tag)
ObjUnknownTag_Declares ==
    /\ IAt("decl", "start")
    /\ ~Declared(ITop.name)
    /\ TopDecl.tag \notin KnownTags
    /\ declare(ITop.name, "Var", PredeclRef)
    /\ DeclReturn
    /\ UNCHANGED <<names, round, first, completed,
                   declData, typCache, tparamIndex, interfaceList, heap,
                   iret, inext, returned, panicked>>
ObjUnknownTag ==
    /\ IAt("decl", "start")
    /\ ~Declared(ITop.name)
    /\ TopDecl.tag \notin KnownTags
    /\ panicked' = TRUE
    /\ UNCHANGED <<names, round, first, completed,
                   declData, scope, typCache, tparamIndex, interfaceList, heap,
                   istack, iret, inext, imported, returned, decodes>>

\* typAt: the cache holds off, and it is not an interface asked for with a
\* base
Cached_IgnoresBase(off, base) == off \in DOMAIN typCache
Cached(off, base) ==
    off \in DOMAIN typCache /\ (base = 0 \/ ~isInterface(heap, typCache[off]))

\* return t from typAt
TypReturn(t) ==
    /\ istack' = Front(istack)
    /\ decodes' = decodes
    /\ iret' = t
    /\ returned' = IF ITop.base = 0
                   THEN [returned EXCEPT ![ITop.off] = @ \cup {t}]
                   ELSE returned

\* typAt after doType: if base == nil || !isInterface(t) { p.typCache[off] = t }
\* (h is the heap that holds t)
Store(h, t) ==
    /\ typCache' = IF ITop.base = 0 \/ ~isInterface(h, t)
                   THEN MapSet(typCache, ITop.off, t)
                   ELSE typCache
    /\ TypReturn(t)

\* typAt: if t, ok := p.typCache[off]; ok && (base == nil || !isInterface(t))
TypAtCached ==
    /\ IAt("typ", "start")
    /\ Cached(ITop.off, ITop.base)
    /\ TypReturn(typCache[ITop.off])
    /\ UNCHANGED <<names, round, first, completed,
                   declData, scope, typCache, tparamIndex, interfaceList, heap,
                   inext, imported, panicked>>

\* typAt decodes: r.doType(base) reads the kind
Decoding(kind) ==
    /\ IAt("typ", "start")
    /\ ~Cached(ITop.off, ITop.base)
    /\ ITop.off # 0
    /\ TopType.kind = kind

\* case definedType: r.p.doDecl(pkg, name)
TypDefined ==
    /\ Decoding("defined")
    /\ ICall(IFrame("decl", TopType.name, 0, 0), "defined")
    /\ UNCHANGED <<names, round, first, completed,
                   declData, scope, typCache, tparamIndex, interfaceList, heap,
                   iret, inext, imported, returned, panicked>>

\* return pkg.Scope().Lookup(name).(*types.TypeName).Type()
TypDefinedDone ==
    /\ IAt("typ", "defined")
    /\ IF scope[TopType.name].obj = "TypeName"
       THEN Store(heap, scope[TopType.name].typ) /\ UNCHANGED panicked
       ELSE panicked' = TRUE /\ UNCHANGED <<typCache, istack, iret, returned, decodes>>
    /\ UNCHANGED <<names, round, first, completed,
                   declData, scope, tparamIndex, interfaceList, heap,
                   inext, imported>>

\* case pointerType (and slice, array, chan): r.typ() for the element
TypPointer ==
    /\ Decoding("pointer")
    /\ ICall(IFrame("typ", 0, TopType.subs[1], 0), "elem")
    /\ UNCHANGED <<names, round, first, completed,
                   declData, scope, typCache, tparamIndex, interfaceList, heap,
                   iret, inext, imported, returned, panicked>>

\* return types.NewPointer(...)
TypPointerDone ==
    /\ IAt("typ", "elem")
    /\ heap' = Append(heap, TypeObj("Pointer", 0, <<iret>>, 0))
    /\ Store(heap', Len(heap) + 1)
    /\ UNCHANGED <<names, round, first, completed,
                   declData, scope, tparamIndex, interfaceList,
                   inext, imported, panicked>>

ElemKinds == {"struct", "signature", "interface"}
\* the element types read so far
ElemsRead == IF ITop.i = 0 THEN <<>> ELSE Append(ITop.acc, iret)

\* case structType, signatureType, interfaceType: the loop reading the field,
\* parameter or embedded types with r.typ()
TypElemsNext ==
    /\ \/ \E k \in ElemKinds : Decoding(k)
       \/ IAt("typ", "elems")
    /\ ITop.i < Len(TopType.subs)
    /\ ICallOf([ITop EXCEPT !.acc = ElemsRead, !.i = @ + 1], "elems",
               IFrame("typ", 0, TopType.subs[ITop.i + 1], 0))
    /\ UNCHANGED <<names, round, first, completed,
                   declData, scope, typCache, tparamIndex, interfaceList, heap,
                   iret, inext, imported, returned, panicked>>

TypeKind(kind) ==
    CASE kind = "struct" -> "Struct"
      [] kind = "signature" -> "Signature"
      [] kind = "interface" -> "Interface"

\* return types.NewStruct(...) / r.signature(nil) / types.NewInterfaceType(...),
\* the interface appended to r.p.interfaceList
TypElemsDone_ListsCached ==
    /\ \/ \E k \in ElemKinds : Decoding(k)
       \/ IAt("typ", "elems")
    /\ ITop.i = Len(TopType.subs)
    /\ heap' = Append(heap, TypeObj(TypeKind(TopType.kind), ITop.base, ElemsRead, 0))
    /\ interfaceList' = IF TopType.kind = "interface" /\ ITop.base = 0
                        THEN Append(interfaceList, Len(heap) + 1)
                        ELSE interfaceList
    /\ Store(heap', Len(heap) + 1)
    /\ UNCHANGED <<names, round, first, completed,
                   declData, scope, tparamIndex, inext, imported, panicked>>
TypElemsDone ==
    /\ \/ \E k \in ElemKinds : Decoding(k)
       \/ IAt("typ", "elems")
    /\ ITop.i = Len(TopType.subs)
    /\ heap' = Append(heap, TypeObj(TypeKind(TopType.kind), ITop.base, ElemsRead, 0))
    /\ interfaceList' = IF TopType.kind = "interface"
                        THEN Append(interfaceList, Len(heap) + 1)
                        ELSE interfaceList
    /\ Store(heap', Len(heap) + 1)
    /\ UNCHANGED <<names, round, first, completed,
                   declData, scope, tparamIndex, inext, imported, panicked>>

\* case typeParamType: if t, ok := r.p.tparamIndex[id]; ok { return t }
TypTypeParamKnown ==
    /\ Decoding("typeParam")
    /\ TopType.name \in DOMAIN tparamIndex
    /\ Store(heap, tparamIndex[TopType.name])
    /\ UNCHANGED <<names, round, first, completed,
                   declData, scope, tparamIndex, interfaceList, heap,
                   inext, imported, panicked>>

\* r.p.doDecl(pkg, name)
TypTypeParam ==
    /\ Decoding("typeParam")
    /\ TopType.name \notin DOMAIN tparamIndex
    /\ ICall(IFrame("decl", TopType.name, 0, 0), "tparam")
    /\ UNCHANGED <<names, round, first, completed,
                   declData, scope, typCache, tparamIndex, interfaceList, heap,
                   iret, inext, imported, returned, panicked>>

\* return r.p.tparamIndex[id]
TypTypeParamDone ==
    /\ IAt("typ", "tparam")
    /\ Store(heap, tparamIndex[TopType.name])
    /\ UNCHANGED <<names, round, first, completed,
                   declData, scope, tparamIndex, interfaceList, heap,
                   inext, imported, panicked>>

\* the variables the importer's steps leave alone
notImp == <<objMap, initVarsCalls, color, typ, objPath, stack, errs, delayed, vtVars, extVars>>

NextImp ==
    \/ CollectNames /\ UNCHANGED notImp
    \/ ImportNext /\ UNCHANGED notImp
    \/ ImportDone /\ UNCHANGED notImp
    \/ DoDeclDeclared /\ UNCHANGED notImp
    \/ ObjTyp /\ UNCHANGED notImp
    \/ ObjDeclare /\ UNCHANGED notImp
    \/ ObjTParamList /\ UNCHANGED notImp
    \/ ObjSignature /\ UNCHANGED notImp
    \/ ObjFunc /\ UNCHANGED notImp
    \/ ObjNamedStub /\ UNCHANGED notImp
    \/ ObjNamedUnderlying /\ UNCHANGED notImp
    \/ ObjNamedMethod /\ UNCHANGED notImp
    \/ ObjTypeParam /\ UNCHANGED notImp
    \/ ObjTypeParamConstraint /\ UNCHANGED notImp
    \/ ObjUnknownTag /\ UNCHANGED notImp
    \/ TypAtCached /\ UNCHANGED notImp
    \/ TypDefined /\ UNCHANGED notImp
    \/ TypDefinedDone /\ UNCHANGED notImp
    \/ TypPointer /\ UNCHANGED notImp
    \/ TypPointerDone /\ UNCHANGED notImp
    \/ TypElemsNext /\ UNCHANGED notImp
    \/ TypElemsDone /\ UNCHANGED notImp
    \/ TypTypeParamKnown /\ UNCHANGED notImp
    \/ TypTypeParam /\ UNCHANGED notImp
    \/ TypTypeParamDone /\ UNCHANGED notImp

SpecImp == InitImp /\ [][NextImp]_vars

\* the import is over: iImportData returns the package, or a fault was raised
ImportOver == inext = NDecl + 2 \/ panicked

\* what an import leaves behind: the scope and the types of the package, the
\* caches, the calls made, and whether it failed
Outcome ==
    [scope |-> scope, heap |-> heap, typCache |-> typCache,
     tparamIndex |-> tparamIndex, interfaceList |-> interfaceList,
     decodes |-> decodes, failed |-> panicked]

\* a second call of iImportData with the same data and a new package: the
\* state is the one of InitImp
ImportAgain ==
    /\ round = 1
    /\ ImportOver
    /\ first' = Outcome
    /\ round' = 2
    /\ scope' = [n \in DeclNames |-> [obj |-> "none", typ |-> 0]]
    /\ typCache' = [o \in {0} |-> PredeclRef]
    /\ tparamIndex' = <<>>
    /\ interfaceList' = <<>>
    /\ heap' = <<TypeObj("Basic", 0, <<>>, 0)>>
    /\ istack' = <<>>
    /\ iret' = 0
    /\ inext' = 1
    /\ imported' = {}
    /\ returned' = [o \in AllOffs |-> {}]
    /\ names' = <<>>
    /\ decodes' = <<>>
    /\ completed' = <<>>
    /\ panicked' = FALSE
    /\ UNCHANGED declData

NextImpTwice ==
    \/ NextImp
    \/ ImportAgain /\ UNCHANGED notImp

SpecImpTwice == InitImp /\ [][NextImpTwice]_vars
-----------------------------------------------------------------------------
(* Properties of the importer *)

\* C9 (as stated): once a call doDecl(pkg, name) has returned, a later call
\* doDecl(pkg, name) returns at once, for every tag: it decodes nothing and
\* leaves the scope, typCache, tparamIndex and interfaceList as they are.
C9_DoDeclIdempotent ==
    [][(IAt("decl", "start") /\ ITop.name \in imported) =>
           /\ istack' = Front(istack)
           /\ scope' = scope
           /\ typCache' = typCache
           /\ tparamIndex' = tparamIndex
           /\ interfaceList' = interfaceList]_vars

\* C10 (as stated): an entry of typCache is never replaced by a different
\* reference, and all typAt(off, nil) calls for one offset return the same
\* reference, the calls made while a decode of off is in progress included.
C10_TypCacheStable ==
    /\ [][\A off \in DOMAIN typCache : typCache'[off] = typCache[off]]_vars
    /\ [](\A off \in DOMAIN returned : Cardinality(returned[off]) <= 1)

-----------------------------------------------------------------------------
(* Properties of the importer: named type stubs *)

\* the Named objects made for declaration n
NamedsOf(n) == {r \in DOMAIN heap : heap[r].k = "Named" /\ heap[r].of = n}
\* the activations of obj that have made their Named and read its body
ReadingBody(i) ==
    /\ istack[i].fn = "decl"
    /\ istack[i].ref # 0
    /\ heap[istack[i].ref].k = "Named"

\* C11 (as stated, the part about the stub): the body of a named type is read
\* exactly once, so one Named object is made for each T or U declaration, and
\* while obj reads the underlying type and the methods of a named type, the
\* package scope binds the name to the Named object of that activation, so
\* that a reference met on the way resolves to it.
C11_StubReadOnce ==
    /\ \A n \in DeclNames : Cardinality(NamedsOf(n)) <= 1
    /\ \A i \in DOMAIN istack :
           ReadingBody(i) =>
               scope[istack[i].name] = [obj |-> "TypeName", typ |-> istack[i].ref]

\* C15: when obj reads a declaration whose tag is none of A, C, F, G, T, U, P
\* and V, the import fails at that step and the scope stays as it is; so the
\* name of such a declaration is never declared, and an import of data that
\* holds one does not succeed.
C15_UnknownTag ==
    /\ [][(IAt("decl", "start") /\ ~Declared(ITop.name) /\ TopDecl.tag \notin KnownTags)
              => (panicked' /\ scope' = scope)]_vars
    /\ [](\A n \in DeclNames :
             declData.decls[n].tag \notin KnownTags =>
                 (scope[n].obj = "none" /\ inext # NDecl + 2))

\* the import has failed at the unknown tag of the second name, after the
\* first name was declared
C15_Witness ==
    /\ panicked
    /\ istack # <<>>
    /\ ITop.fn = "decl"
    /\ ITop.pc = "start"
    /\ ITop.name = 2
    /\ TopDecl.tag = UnknownTag
    /\ scope[1].obj # "none"
    /\ scope[2].obj = "none"

\* C17: whatever order the index map yields its names in, the k-th top-level
\* doDecl call is for the k-th name in sorted order, and a second import of
\* the same data makes the same doDecl and typAt calls in the same order and
\* ends with the same scope and the same types as the first.
C17_Deterministic ==
    /\ [][(istack = <<>> /\ istack' # <<>>) => istack'[1].name = inext]_vars
    /\ []((round = 2 /\ ImportOver) => Outcome = first)

\* a second import has succeeded after having decoded a type for the second
\* name before the first name was declared
C17_Witness ==
    /\ round = 2
    /\ inext = NDecl + 2
    /\ Len(decodes) > NDecl + 1
    /\ decodes[2][1] = "typ"
    /\ \E i \in DOMAIN decodes : decodes[i] = <<"decl", 2, 0>> /\ i > 2 /\ i < Len(decodes)
    /\ Outcome = first

-----------------------------------------------------------------------------
(* iImportData: the version check, the package list and the fault barrier *)

\* uint64 and int64 are modelled with WordBits bits
WordBits == 3
\* the longest package list read
MaxPkgs == 2

RECURSIVE Pow2(_)
Pow2(n) == IF n = 0 THEN 1 ELSE 2 * Pow2(n - 1)
\* the values of a uint64
UintVals == 0..(Pow2(WordBits) - 1)
\* the conversion int64(x) of a uint64 and the wrap-around of int64 sums
ToInt64(x) ==
    LET m == x % Pow2(WordBits)
    IN IF m >= Pow2(WordBits - 1) THEN m - Pow2(WordBits) ELSE m

iexportVersionGo1_11 == 0
iexportVersionPosCol == 1
iexportVersionGenerics == iexportVersionPosCol
iexportVersionCurrent == iexportVersionGenerics
currentVersion == iexportVersionCurrent

\* what r.uint64() of the intReader gives: a value, or ReadErr when
\* binary.ReadUvarint fails, which makes it call errorf
ReadErr == -1
ReadResults == {ReadErr} \cup UintVals

\* the path the caller passes, the package paths and names the data holds,
\* and the paths the caller's imports table can hold
ipath == "p"
PkgPaths == {"", "p", "q"}
PkgNames == {"p", "q"}
TablePaths == {"p", "q"}
\* byPath: the order of the paths
PathRank(path) == CASE path = "" -> 0 [] path = "p" -> 1 [] path = "q" -> 2

\* types.NewPackage(path, name)
NewPackage(path, name) ==
    [path |-> path, name |-> name, complete |-> FALSE, imps |-> <<>>, impsSet |-> FALSE]

\* the call iImportData(fset, imports, dataReader, path): the caller's table
\* maps some paths to packages, complete or not
InitHdr ==
    /\ \E f \in [TablePaths -> [in : BOOLEAN, name : PkgNames, complete : BOOLEAN]] :
           LET entry(x) == IF f[x].in
                           THEN <<[NewPackage(x, f[x].name) EXCEPT !.complete = f[x].complete]>>
                           ELSE <<>>
           IN /\ pkgs = entry("p") \o entry("q")
              /\ imports = [x \in {x \in TablePaths : f[x].in} |->
                               IF x = "p" THEN 1 ELSE Len(entry("p")) + 1]
    /\ hpc = "version"
    /\ version = -1
    /\ vread = ReadErr
    /\ pkgList = <<>>
    /\ npkgs = 0
    /\ pkgIn = [path |-> "", name |-> "", pkg |-> 0]
    /\ hresult = [ret |-> FALSE, pkg |-> 0, err |-> "nil"]
    /\ ChkIdle
    /\ VTIdle
    /\ ImpIdle
    /\ RdIdle
    /\ WalkIdle
    /\ DeclIdle
    /\ PosIdle
    /\ SubIdle

\* iImportData runs and no fault has been raised
HAt(pc) == hpc = pc /\ ~panicked /\ ~hresult.ret

\* errorf, or a run-time panic
Fault(unchanged) == panicked' = TRUE /\ UNCHANGED unchanged

\* version = int64(r.uint64()); switch version { ... }
ReadVersion ==
    /\ HAt("version")
    /\ \E r \in ReadResults :
           IF r = ReadErr
           THEN Fault(<<hpc, version, vread>>)
           ELSE /\ vread' = r
                /\ version' = ToInt64(r)
                /\ IF version' \in {iexportVersionPosCol, iexportVersionGo1_11}
                   THEN hpc' = "data" /\ UNCHANGED panicked
                   ELSE Fault(<<hpc>>)
    /\ UNCHANGED <<imports, pkgs, pkgList, npkgs, pkgIn, hresult>>

\* sLen, dLen, data := make([]byte, sLen+dLen), io.ReadFull(r, data),
\* data[:sLen]: full tells whether the reader holds sLen+dLen more bytes
ReadData ==
    /\ HAt("data")
    /\ \E s \in ReadResults, d \in ReadResults, full \in BOOLEAN :
           LET sLen == ToInt64(s)
               dLen == ToInt64(d)
               n == ToInt64(sLen + dLen + Pow2(WordBits))
           IN IF \/ s = ReadErr \/ d = ReadErr
                 \/ n < 0
                 \/ (n > 0 /\ ~full)
                 \/ sLen < 0 \/ sLen > n
              THEN Fault(<<hpc>>)
              ELSE hpc' = "pkgcount" /\ UNCHANGED panicked
    /\ UNCHANGED <<version, vread, imports, pkgs, pkgList, npkgs, pkgIn, hresult>>

\* pkgList := make([]*types.Package, r.uint64())
ReadPkgCount ==
    /\ HAt("pkgcount")
    /\ \E r \in {ReadErr} \cup (0..MaxPkgs) :
           IF r = ReadErr
           THEN Fault(<<hpc, npkgs>>)
           ELSE hpc' = "pkg" /\ npkgs' = r /\ UNCHANGED panicked
    /\ UNCHANGED <<version, vread, imports, pkgs, pkgList, pkgIn, hresult>>

\* the path a package of the list is looked up with
PkgPath_KeepEmpty(path) == path
PkgPath(path) == IF path = "" THEN ipath ELSE path

\* for i := range pkgList: pkgPath, pkgName and the package height are read;
\* the package is looked up in imports, made if it is not there, and checked
\* for its name if it is
ReadPkg ==
    /\ HAt("pkg")
    /\ Len(pkgList) < npkgs
    /\ \E ok \in BOOLEAN, path \in PkgPaths, name \in PkgNames :
           IF ~ok
           THEN Fault(<<hpc, imports, pkgs, pkgIn>>)
           ELSE LET pkgPath == PkgPath(path) IN
                IF pkgPath \notin DOMAIN imports
                THEN /\ pkgs' = Append(pkgs, NewPackage(pkgPath, name))
                     /\ imports' = MapSet(imports, pkgPath, Len(pkgs) + 1)
                     /\ pkgIn' = [path |-> path, name |-> name, pkg |-> Len(pkgs) + 1]
                     /\ hpc' = "syms"
                     /\ UNCHANGED panicked
                ELSE /\ pkgIn' = [path |-> path, name |-> name, pkg |-> imports[pkgPath]]
                     /\ IF pkgs[imports[pkgPath]].name # name
                        THEN Fault(<<hpc>>)
                        ELSE hpc' = "syms" /\ UNCHANGED panicked
                     /\ UNCHANGED <<imports, pkgs>>
    /\ UNCHANGED <<version, vread, pkgList, npkgs, hresult>>

\* p.pkgCache[pkgPathOff] = pkg; the name index of the package is read;
\* pkgList[i] = pkg
ReadSyms ==
    /\ HAt("syms")
    /\ \E ok \in BOOLEAN :
           IF ~ok
           THEN Fault(<<hpc, pkgList>>)
           ELSE /\ pkgList' = Append(pkgList, pkgIn.pkg)
                /\ hpc' = "pkg"
                /\ UNCHANGED panicked
    /\ UNCHANGED <<version, vread, imports, pkgs, npkgs, pkgIn, hresult>>

\* localpkg := pkgList[0], which panics on an empty list; the loop over the
\* sorted names and the loop over p.interfaceList, which end with or without
\* a fault
Decls ==
    /\ HAt("pkg")
    /\ Len(pkgList) = npkgs
    /\ \E fault \in BOOLEAN :
           IF npkgs = 0 \/ fault
           THEN Fault(<<hpc>>)
           ELSE hpc' = "imports" /\ UNCHANGED panicked
    /\ UNCHANGED <<version, vread, imports, pkgs, pkgList, npkgs, pkgIn, hresult>>

\* sort.Sort(byPath(list)), by insertion
RECURSIVE SortByPath(_)
SortByPath(list) ==
    IF list = <<>> THEN <<>>
    ELSE LET rest == SortByPath(Front(list))
             x == Last(list)
             before == SelectSeq(rest, LAMBDA y : PathRank(pkgs[y].path) <= PathRank(pkgs[x].path))
             after == SelectSeq(rest, LAMBDA y : PathRank(pkgs[y].path) > PathRank(pkgs[x].path))
         IN before \o <<x>> \o after

\* list := pkgList[1:]; sort; localpkg.SetImports(list);
\* localpkg.MarkComplete(); return localpkg, nil
Finish ==
    /\ HAt("imports")
    /\ pkgs' = [pkgs EXCEPT ![pkgList[1]] =
                    [@ EXCEPT !.imps = SortByPath(Tail(pkgList)),
                              !.impsSet = TRUE,
                              !.complete = TRUE]]
    /\ hresult' = [ret |-> TRUE, pkg |-> pkgList[1], err |-> "nil"]
    /\ hpc' = "return"
    /\ UNCHANGED <<version, vread, imports, pkgList, npkgs, pkgIn, panicked>>

\* the deferred function: if e := recover(); e != nil { if version >
\* currentVersion { err = ...newer version... } else { err = ...version
\* skew... } }
barrier(v) == IF v > currentVersion THEN "newer" ELSE "skew"

Recover_Swallows ==
    /\ panicked
    /\ ~hresult.ret
    /\ hresult' = [hresult EXCEPT !.ret = TRUE]
    /\ UNCHANGED <<hpc, version, vread, imports, pkgs, pkgList, npkgs, pkgIn, panicked>>
Recover ==
    /\ panicked
    /\ ~hresult.ret
    /\ hresult' = [hresult EXCEPT !.ret = TRUE, !.err = barrier(version)]
    /\ UNCHANGED <<hpc, version, vread, imports, pkgs, pkgList, npkgs, pkgIn, panicked>>

\* the variables the steps of iImportData leave alone
notHdr == <<objMap, initVarsCalls, color, typ, objPath, stack, errs, delayed, vtVars, impVars,
            rdVars, walkVars, declVars, posVars, subVars>>

NextHdr ==
    \/ ReadVersion /\ UNCHANGED notHdr
    \/ ReadData /\ UNCHANGED notHdr
    \/ ReadPkgCount /\ UNCHANGED notHdr
    \/ ReadPkg /\ UNCHANGED notHdr
    \/ ReadSyms /\ UNCHANGED notHdr
    \/ Decls /\ UNCHANGED notHdr
    \/ Finish /\ UNCHANGED notHdr
    \/ Recover /\ UNCHANGED notHdr

SpecHdr == InitHdr /\ [][NextHdr]_vars

-----------------------------------------------------------------------------
(* Properties of iImportData *)

\* C12 (as stated): the import goes past the version check iff the version
\* read is 0 or 1; for every value greater than 1 that r.uint64() can return
\* for the version, the error returned is the "newer version" one; a failure
\* with an accepted version, or before the version is read, gives the
\* "version skew" one.
C12_VersionErrors ==
    /\ (hpc # "version") <=> (vread \in {iexportVersionGo1_11, iexportVersionPosCol})
    /\ (hresult.ret /\ vread > iexportVersionPosCol) => hresult.err = "newer"
    /\ (hresult.ret /\ panicked /\ vread <= iexportVersionPosCol) => hresult.err = "skew"

\* C13: the call returns either a package and no error, or no package and an
\* error, the latter exactly when a fault was raised; a fault that has been
\* raised can always be recovered; and a package is marked complete or given
\* its import list only by a step that returns without a fault.
C13_FaultBarrier ==
    /\ [](hresult.ret =>
             IF panicked
             THEN hresult.pkg = 0 /\ hresult.err # "nil"
             ELSE hresult.pkg = pkgList[1] /\ hresult.err = "nil")
    /\ []((panicked /\ ~hresult.ret) => ENABLED (Recover /\ UNCHANGED notHdr))
    /\ [][\A r \in DOMAIN pkgs :
              (pkgs'[r].complete # pkgs[r].complete \/ pkgs'[r].impsSet # pkgs[r].impsSet)
                  => (~panicked' /\ hresult'.ret /\ hresult'.pkg = r)]_vars

\* a fault raised while the second package of the list is read, after a
\* package was added to the table, has been caught
C13_Witness ==
    /\ hresult.ret
    /\ panicked
    /\ hpc = "syms"
    /\ Len(pkgList) = 1
    /\ pkgIn.pkg = Len(pkgs)
    /\ pkgIn.pkg \notin Range(pkgList)
    /\ hresult = [ret |-> TRUE, pkg |-> 0, err |-> "skew"]

\* C16: when a package of the list is read, an empty path stands for the
\* caller's path; a path the imports table holds gives the package of the
\* table and no new one, and a fault if its name differs; a path the table
\* does not hold gives a new package, which the table then holds; and the
\* package returned is the first of the list.
C16_PackageList ==
    /\ [][(HAt("pkg") /\ Len(pkgList) < npkgs /\ (hpc' = "syms" \/ pkgIn' # pkgIn)) =>
             LET path == IF pkgIn'.path = "" THEN ipath ELSE pkgIn'.path IN
             IF path \in DOMAIN imports
             THEN /\ pkgs' = pkgs
                  /\ imports' = imports
                  /\ pkgIn'.pkg = imports[path]
                  /\ panicked' <=> (pkgs[imports[path]].name # pkgIn'.name)
             ELSE /\ Len(pkgs') = Len(pkgs) + 1
                  /\ \A r \in DOMAIN pkgs : pkgs'[r] = pkgs[r]
                  /\ pkgs'[Len(pkgs')] = NewPackage(path, pkgIn'.name)
                  /\ imports' = MapSet(imports, path, Len(pkgs'))
                  /\ pkgIn'.pkg = Len(pkgs')
                  /\ ~panicked']_vars
    /\ [][(HAt("syms") /\ ~panicked') => pkgList' = Append(pkgList, pkgIn.pkg)]_vars
    /\ []((hresult.ret /\ ~panicked) => hresult.pkg = pkgList[1])

\* the first package of the list was found in the table and is returned, the
\* second one was made and added to the table
C16_Witness ==
    /\ hresult.ret
    /\ ~panicked
    /\ Len(pkgList) = 2
    /\ pkgList[1] = 1
    /\ pkgList[2] = Len(pkgs)
    /\ pkgs[pkgList[2]].path = "q"
    /\ imports = [x \in TablePaths |-> IF x = "p" THEN 1 ELSE 2]
    /\ hresult.pkg = 1
    /\ Len(pkgs) = 2
    /\ pkgs[1].imps = <<2>>

-----------------------------------------------------------------------------
(* The read primitives: byte, uint64, int64, mpint, stringAt *)

\* the longest data read
MaxData == 3

\* the byte values the data is made of
ByteVals == {0, 1, 2, 3, 128, 129, 252, 253, 254, 255}

\* binary.MaxVarintLen64
MaxVarintLen64 == 10

\* the bytes a magnitude is made of
MagVals == {0, 1, 255}

\* the kinds of the basic types mpint is called with (integers by value,
\* floats and complex numbers by mpfloat), and what Info() tells of them
UntypedKinds == {"UntypedInt", "UntypedRune", "UntypedFloat", "UntypedComplex"}
UnsignedKinds == {"Uint", "Uint8", "Uint16", "Uint32", "Uint64", "Uintptr"}
IntKinds ==
    {"Int", "Int8", "Int16", "Int32", "Int64",
     "Float32", "Float64", "Complex64", "Complex128"}
    \cup UnsignedKinds \cup UntypedKinds

\* func intSize(b *types.Basic) (signed bool, maxBytes uint)
intSize(kind) ==
    IF kind \in UntypedKinds THEN [signed |-> TRUE, maxBytes |-> 64]
    ELSE IF kind \in {"Float32", "Complex64"} THEN [signed |-> TRUE, maxBytes |-> 3]
    ELSE IF kind \in {"Float64", "Complex128"} THEN [signed |-> TRUE, maxBytes |-> 7]
    ELSE [signed |-> kind \notin UnsignedKinds,
          maxBytes |-> IF kind \in {"Int8", "Uint8"} THEN 1
                       ELSE IF kind \in {"Int16", "Uint16"} THEN 2
                       ELSE IF kind \in {"Int32", "Uint32"} THEN 4
                       ELSE 8]

\* what a call did: ok (no fault), the value, the number of bytes it asked
\* the reader for and the number of bytes it got
Res(ok, val, asked, got) == [done |-> TRUE, ok |-> ok, val |-> val, asked |-> asked, got |-> got]

\* binary.ReadUvarint and binary.Uvarint from byte i (counted from 0) on:
\* x and s as in the library's loop; a byte below 0x80 ends the number
RECURSIVE Uvarint(_, _, _, _, _)
Uvarint(data, start, i, x, s) ==
    IF i >= MaxVarintLen64 THEN [err |-> "overflow", val |-> 0, n |-> i]
    ELSE IF start + i + 1 > Len(data) THEN [err |-> "eof", val |-> 0, n |-> i]
    ELSE LET b == data[start + i + 1] IN
         IF b < 128
         THEN IF i = MaxVarintLen64 - 1 /\ b > 1
              THEN [err |-> "overflow", val |-> 0, n |-> i + 1]
              ELSE [err |-> "nil", val |-> x + b * Pow2(s), n |-> i + 1]
         ELSE Uvarint(data, start, i + 1, x + (b % 128) * Pow2(s), s + 7)

\* the calls: a primitive of importReader / intReader, or p.stringAt(off)
RdCalls ==
    {[prim |-> pr, kind |-> "", off |-> 0] : pr \in {"byte", "uint64", "int64"}}
    \cup {[prim |-> "mpint", kind |-> k, off |-> 0] : k \in IntKinds}
    \cup {[prim |-> "stringAt", kind |-> "", off |-> o] : o \in 0..MaxData}

\* the data of a call: for mpint any first byte, then a magnitude
InitRd ==
    /\ rdCall \in RdCalls
    /\ rdData \in IF rdCall.prim = "mpint"
                  THEN {<<>>} \cup {<<n>> \o m : n \in 0..255,
                                               m \in SeqsUpTo(MagVals, MaxData - 1)}
                  ELSE SeqsUpTo(ByteVals, MaxData)
    /\ rdRes = [done |-> FALSE, ok |-> FALSE, val |-> 0, asked |-> 0, got |-> 0]
    /\ ChkIdle
    /\ VTIdle
    /\ ImpIdle
    /\ HdrIdle
    /\ WalkIdle
    /\ DeclIdle
    /\ PosIdle
    /\ SubIdle

Calling(prim) == rdCall.prim = prim /\ ~rdRes.done
Min(a, b) == IF a < b THEN a ELSE b

\* func (r *importReader) byte() byte
RdByte ==
    /\ Calling("byte")
    /\ rdRes' = IF Len(rdData) = 0
                THEN Res(FALSE, 0, 1, 0)
                ELSE Res(TRUE, rdData[1], 1, 1)
    /\ UNCHANGED <<rdData, rdCall>>

\* the bytes a varint asks for: one more than the data holds if it does not
\* end in the data
VarintRes(u, val) ==
    IF u.err = "nil" THEN Res(TRUE, val, u.n, u.n)
    ELSE Res(FALSE, 0, IF u.err = "eof" THEN u.n + 1 ELSE u.n, u.n)

\* func (r *importReader) uint64() uint64, func (r *intReader) uint64() uint64
RdUint64 ==
    /\ Calling("uint64")
    /\ LET u == Uvarint(rdData, 0, 0, 0, 0) IN rdRes' = VarintRes(u, u.val)
    /\ UNCHANGED <<rdData, rdCall>>

\* func (r *importReader) int64() int64, with binary.ReadVarint:
\* x := int64(ux >> 1); if ux&1 != 0 { x = ^x }
RdInt64 ==
    /\ Calling("int64")
    /\ LET u == Uvarint(rdData, 0, 0, 0, 0)
           x == u.val \div 2
       IN rdRes' = VarintRes(u, IF u.val % 2 # 0 THEN -x - 1 ELSE x)
    /\ UNCHANGED <<rdData, rdCall>>

\* A big.Int: its sign and its magnitude, big-endian without leading zeros.
\* x.SetBytes(b)
RECURSIVE SetBytes(_)
SetBytes(b) ==
    IF b = <<>> THEN [neg |-> FALSE, mag |-> <<>>]
    ELSE IF b[1] = 0 THEN SetBytes(Tail(b))
    ELSE [neg |-> FALSE, mag |-> b]

\* x.SetInt64(v), for the values of one byte's decoding
SetInt64(v) ==
    IF v = 0 THEN [neg |-> FALSE, mag |-> <<>>]
    ELSE [neg |-> v < 0, mag |-> <<IF v < 0 THEN -v ELSE v>>]

\* x.Neg(x): zero has no sign
Neg(x) == IF x.mag = <<>> THEN x ELSE [x EXCEPT !.neg = ~x.neg]

\* n, _ := r.declReader.ReadByte(): 0 at the end of the data
ReadByteOrZero(data) == IF Len(data) = 0 THEN 0 ELSE data[1]

\* maxSmall := 256 - maxBytes; if signed { maxSmall = 256 - 2*maxBytes };
\* if maxBytes == 1 { maxSmall = 256 }
maxSmall_NoByteCase(signed, maxBytes) ==
    IF signed THEN 256 - 2 * maxBytes ELSE 256 - maxBytes
maxSmall(signed, maxBytes) ==
    IF maxBytes = 1 THEN 256
    ELSE IF signed THEN 256 - 2 * maxBytes ELSE 256 - maxBytes

\* v := int64(n); if signed { v >>= 1; if n&1 != 0 { v = ^v } }
smallValue_Negated(n, signed) ==
    IF signed THEN IF n % 2 # 0 THEN -(n \div 2) ELSE n \div 2 ELSE n
smallValue(n, signed) ==
    IF signed THEN IF n % 2 # 0 THEN -(n \div 2) - 1 ELSE n \div 2 ELSE n

\* v := -n; if signed { v = -(n &^ 1) >> 1 }, in byte arithmetic
magLen(n, signed) ==
    IF signed THEN ((256 - (n - (n % 2))) % 256) \div 2 ELSE (256 - n) % 256

\* func (r *importReader) mpint(x *big.Int, typ *types.Basic)
mpint(data, kind) ==
    LET signed == intSize(kind).signed
        maxBytes == intSize(kind).maxBytes
        n == ReadByteOrZero(data)
        got1 == Min(1, Len(data))
        v == magLen(n, signed)
        \* io.ReadFull(&r.declReader, b): the bytes there are, then zeros
        b == [j \in 1..v |-> IF 1 + j <= Len(data) THEN data[1 + j] ELSE 0]
        gotb == Min(v, Len(data) - got1)
        big == IF signed /\ n % 2 # 0 THEN Neg(SetBytes(b)) ELSE SetBytes(b)
    IN IF n < maxSmall(signed, maxBytes)
       THEN Res(TRUE, SetInt64(smallValue(n, signed)), 1, got1)
       ELSE IF v < 1 \/ v > maxBytes THEN Res(FALSE, 0, 1, got1)
       ELSE Res(TRUE, big, 1 + v, got1 + gotb)

RdMpint ==
    /\ Calling("mpint")
    /\ rdRes' = mpint(rdData, rdCall.kind)
    /\ UNCHANGED <<rdData, rdCall>>

\* func (p *iimporter) stringAt(off uint64) string: the slice expressions
\* panic when they reach beyond the data
stringAt(data, off) ==
    IF off > Len(data) THEN Res(FALSE, <<>>, 1, 0)
    ELSE LET u == Uvarint(data, off, 0, 0, 0)
             spos == off + u.n
         IN IF u.err # "nil" THEN Res(FALSE, <<>>, u.n + 1, u.n)
            ELSE IF spos + u.val > Len(data)
            THEN Res(FALSE, <<>>, u.n + u.val, Len(data) - off)
            ELSE Res(TRUE, SubSeq(data, spos + 1, spos + u.val), u.n + u.val, u.n + u.val)

RdStringAt ==
    /\ Calling("stringAt")
    /\ rdRes' = stringAt(rdData, rdCall.off)
    /\ UNCHANGED <<rdData, rdCall>>

\* the variables the read primitives leave alone
notRd == <<chkVars, vtVars, impVars, hdrVars, walkVars, declVars, posVars, subVars>>

NextRd ==
    \/ RdByte /\ UNCHANGED notRd
    \/ RdUint64 /\ UNCHANGED notRd
    \/ RdInt64 /\ UNCHANGED notRd
    \/ RdMpint /\ UNCHANGED notRd
    \/ RdStringAt /\ UNCHANGED notRd

SpecRd == InitRd /\ [][NextRd]_vars

\* C14 (as stated): a read primitive that produces a value got every byte it
\* asked the reader for; when the data ends before that, or a varint is
\* malformed, the call faults.
C14_NoValueFromMissingBytes ==
    (rdRes.done /\ rdRes.ok) => rdRes.got = rdRes.asked

\* a call of mpint has returned or faulted; its first byte; its type
MpintDone == rdCall.prim = "mpint" /\ rdRes.done
FirstByte == IF rdData = <<>> THEN 0 ELSE rdData[1]
IsSigned == rdCall.kind \notin UnsignedKinds

\* the byte widths by kind: of the types with a size, and of the untyped
\* ones as given
WidthOf(kind, untyped) ==
    IF kind \in UntypedKinds THEN untyped
    ELSE IF kind \in {"Int8", "Uint8"} THEN 1
    ELSE IF kind \in {"Int16", "Uint16"} THEN 2
    ELSE IF kind \in {"Int32", "Uint32"} THEN 4
    ELSE IF kind \in {"Float32", "Complex64"} THEN 3
    ELSE IF kind \in {"Float64", "Complex128"} THEN 7
    ELSE 8

\* the first byte is below the threshold of the width exactly when mpint
\* asks for that one byte only
PathByWidth(w) ==
    LET small == IF w = 1 THEN 256
                 ELSE IF IsSigned THEN 256 - 2 * w ELSE 256 - w
    IN (FirstByte < small) <=> (rdRes.ok /\ rdRes.asked = 1)

\* C21 (as stated): mpint uses the width 8 for untyped and default-width
\* integers, 1, 2, 4 for the sized integers, 3 and 7 for the floats, and
\* the threshold 256 - w if unsigned, 256 - 2w if signed, 256 if w is 1, to
\* choose between the single-byte and the multi-byte path.
C21_WidthsAsStated == MpintDone => PathByWidth(WidthOf(rdCall.kind, 8))

\* C21 (amended): as stated, but the width of an untyped type is 64.
C21_Widths == MpintDone => PathByWidth(WidthOf(rdCall.kind, 64))

\* an untyped integer whose first byte 200 is below 256 - 2*8 and not
\* below 256 - 2*64: a magnitude of 28 bytes was asked for
C21_Witness ==
    /\ MpintDone
    /\ rdCall.kind = "UntypedInt"
    /\ FirstByte = 200
    /\ rdRes.ok
    /\ rdRes.asked = 29

\* the number a big.Int of at most one byte stands for
NumOf(x) == IF x.mag = <<>> THEN 0 ELSE IF x.neg THEN -x.mag[1] ELSE x.mag[1]

\* the single-byte path was taken
SmallPath == MpintDone /\ rdRes.ok /\ rdRes.asked = 1

\* C22 (as stated): on the single-byte path the value is n for an unsigned
\* type and, for a signed type, n >> 1, negated if the low bit of n is set.
C22_SmallAsStated ==
    SmallPath =>
        /\ Len(rdRes.val.mag) <= 1
        /\ NumOf(rdRes.val) =
               IF ~IsSigned THEN FirstByte
               ELSE IF FirstByte % 2 # 0 THEN -(FirstByte \div 2)
               ELSE FirstByte \div 2

\* C22 (amended): on the single-byte path the value is n for an unsigned
\* type and, for a signed type, n >> 1, complemented bit by bit if the low
\* bit of n is set: n is 2x for a value x >= 0 and -2x - 1 for x < 0.
C22_Small ==
    SmallPath =>
        /\ Len(rdRes.val.mag) <= 1
        /\ LET x == NumOf(rdRes.val) IN
               FirstByte = IF ~IsSigned THEN x
                           ELSE IF x >= 0 THEN 2 * x ELSE -2 * x - 1

\* an int8 read from the byte 255: -128
C22_Witness ==
    /\ SmallPath
    /\ rdCall.kind = "Int8"
    /\ FirstByte = 255
    /\ rdRes.val = [neg |-> TRUE, mag |-> <<128>>]

\* the multi-byte path was taken: the first byte is not below maxSmall
BigPath ==
    /\ MpintDone
    /\ FirstByte >= maxSmall(intSize(rdCall.kind).signed, intSize(rdCall.kind).maxBytes)

\* the length of the magnitude
LenOfMag ==
    IF IsSigned THEN (256 - (FirstByte - (FirstByte % 2))) \div 2 ELSE 256 - FirstByte

\* on the multi-byte path there is no fault, the length is between 1 and
\* maxBytes and that many bytes are asked for, and only a signed type with
\* the low bit set gives a negative value
BigPathDecoded ==
    BigPath =>
        /\ rdRes.ok
        /\ 1 <= LenOfMag /\ LenOfMag <= intSize(rdCall.kind).maxBytes
        /\ rdRes.asked = 1 + LenOfMag
        /\ rdRes.val.neg => (IsSigned /\ FirstByte % 2 # 0)
        /\ (IsSigned /\ FirstByte % 2 # 0 /\ rdRes.val.mag # <<>>) => rdRes.val.neg

\* C23 (as stated): on the multi-byte path the length of the magnitude is
\* v = 256 - n if unsigned and (256 - (n with the low bit cleared)) >> 1 if
\* signed, 1 <= v <= maxBytes so that there is no weird decoding fault,
\* exactly v bytes are consumed, and the value is negated only if the type is
\* signed and the low bit of n is set.
C23_BigPath ==
    /\ BigPathDecoded
    /\ BigPath => rdRes.got = rdRes.asked

-----------------------------------------------------------------------------
(* walkDecl: the declarations of a const or var block *)

\* the longest block walked
MaxSpecs == 3

\* A ValueSpec as far as walkDecl looks at it: whether it has a type and
\* whether it has values.  The type and the values of the spec at index j
\* are told apart from those of the other specs by j.
ValueSpecs == [hasType : BOOLEAN, hasValues : BOOLEAN]
TypeOf(specs, j) == IF specs[j].hasType THEN j ELSE 0
ValuesOf(specs, j) == IF specs[j].hasValues THEN <<j>> ELSE <<>>

\* last: nil, or a ValueSpec with its Type (0: nil) and its Values
NilSpec == [set |-> FALSE, Type |-> 0, Values |-> <<>>]
ValueSpec(type, values) == [set |-> TRUE, Type |-> type, Values |-> values]

InitWalk ==
    /\ \E tok \in {"CONST", "VAR"}, specs \in SeqsUpTo(ValueSpecs, MaxSpecs) :
           gen = [Tok |-> tok, Specs |-> specs]
    /\ iota = 0
    /\ last = NilSpec
    /\ emitted = <<>>
    /\ ChkIdle
    /\ VTIdle
    /\ ImpIdle
    /\ HdrIdle
    /\ RdIdle
    /\ DeclIdle
    /\ PosIdle
    /\ SubIdle

\* for iota, s := range d.Specs, at a ValueSpec of a block with token tok
AtSpec(tok) == iota < Len(gen.Specs) /\ gen.Tok = tok
\* s, by its index in d.Specs counted from 1
S == iota + 1

constDecl(spec, i, type, init, inherited) ==
    [kind |-> "const", spec |-> spec, iota |-> i, typ |-> type, init |-> init,
     inherited |-> inherited]

\* f(constDecl{spec: s, iota: iota, typ: last.Type, init: last.Values,
\* inherited: inherited}), with the last of after the switch
EmitConst(l, inherited) ==
    /\ last' = l
    /\ emitted' = Append(emitted, constDecl(S, iota, l.Type, l.Values, inherited))
    /\ iota' = iota + 1
    /\ UNCHANGED gen

\* case s.Type != nil || len(s.Values) > 0: last = s; inherited = false
WalkConstOwn ==
    /\ AtSpec("CONST")
    /\ gen.Specs[S].hasType \/ gen.Specs[S].hasValues
    /\ EmitConst(ValueSpec(TypeOf(gen.Specs, S), ValuesOf(gen.Specs, S)), FALSE)

\* case last == nil: last = new(ast.ValueSpec); inherited = false
WalkConstNoLast ==
    /\ AtSpec("CONST")
    /\ ~(gen.Specs[S].hasType \/ gen.Specs[S].hasValues)
    /\ ~last.set
    /\ EmitConst(ValueSpec(0, <<>>), FALSE)

\* neither case: inherited stays true
WalkConstInherit ==
    /\ AtSpec("CONST")
    /\ ~(gen.Specs[S].hasType \/ gen.Specs[S].hasValues)
    /\ last.set
    /\ EmitConst(last, TRUE)

\* case token.VAR: f(varDecl{s})
WalkVar ==
    /\ AtSpec("VAR")
    /\ emitted' = Append(emitted, [kind |-> "var", spec |-> S])
    /\ iota' = iota + 1
    /\ UNCHANGED <<gen, last>>

\* the variables walkDecl leaves alone
notWalk == <<chkVars, vtVars, impVars, hdrVars, rdVars, declVars, posVars, subVars>>

NextWalk ==
    \/ WalkConstOwn /\ UNCHANGED notWalk
    \/ WalkConstNoLast /\ UNCHANGED notWalk
    \/ WalkConstInherit /\ UNCHANGED notWalk
    \/ WalkVar /\ UNCHANGED notWalk

SpecWalk == InitWalk /\ [][NextWalk]_vars

\* the specs before k that have a type or values
Having(k) == {j \in 1..(k - 1) : gen.Specs[j].hasType \/ gen.Specs[j].hasValues}
\* the greatest member of a non-empty set of numbers
Max(X) == CHOOSE x \in X : \A y \in X : y <= x

\* C19 (as stated): on a const block, one constDecl is emitted for each spec
\* walked, with iota the index of the spec counted from 0; a spec with a type
\* or values gets its own type and values and inherited = false; a spec with
\* neither gets those of the nearest spec before it that has a type or values
\* and inherited = true; a spec with neither and no such spec before it gets
\* no type, no values and inherited = false.
C19_ConstInheritance ==
    gen.Tok = "CONST" =>
        /\ Len(emitted) = iota
        /\ \A k \in DOMAIN emitted :
               LET own == gen.Specs[k].hasType \/ gen.Specs[k].hasValues
                   from == IF own THEN k ELSE Max(Having(k))
               IN /\ emitted[k].kind = "const"
                  /\ emitted[k].spec = k
                  /\ emitted[k].iota = k - 1
                  /\ IF own \/ Having(k) # {}
                     THEN /\ emitted[k].typ = TypeOf(gen.Specs, from)
                          /\ emitted[k].init = ValuesOf(gen.Specs, from)
                          /\ emitted[k].inherited = ~own
                     ELSE /\ emitted[k].typ = 0
                          /\ emitted[k].init = <<>>
                          /\ emitted[k].inherited = FALSE

-----------------------------------------------------------------------------
(* More properties of the colour engine and of validType *)

\* a grey object is on the object path at the index of its colour
GreyOnPath ==
    \A o \in Objs : color[o].c = "grey" =>
        (color[o].i < Len(objPath) /\ objPath[color[o].i + 1] = o)

\* funcDecl holds the object at place j of the object path black while it
\* elaborates the signature
HeldBlack(j) ==
    /\ color[objPath[j]] = black
    /\ objMap[objPath[j]].kind = "Func"
    /\ \E k \in DOMAIN stack :
           /\ stack[k].obj = objPath[j]
           /\ stack[k].pc = "sig"
           /\ stack[k].saved = grey(j - 1)

\* C24 (as stated): an object whose colour is grey(i) is at objPath[i], and
\* every object on the object path is grey with the index of its position,
\* so that no white or black object is ever on the path.
C24_GreyIsOnPath ==
    /\ GreyOnPath
    /\ \A j \in DOMAIN objPath : color[objPath[j]] = grey(j - 1)

\* C24 (amended): an object whose colour is grey(i) is at objPath[i], and
\* every object on the object path is grey with the index of its position,
\* except a Func while funcDecl elaborates its signature, which is black
\* and on the path; no white object is ever on the path.
C24_PathColours ==
    /\ GreyOnPath
    /\ \A j \in DOMAIN objPath : color[objPath[j]] = grey(j - 1) \/ HeldBlack(j)

\* the signature of a Func refers to a second object, which is grey at
\* index 1 while the Func is black at place 1 of the path
C24_Witness ==
    /\ Len(objPath) = 2
    /\ HeldBlack(1)
    /\ color[objPath[2]] = grey(1)
    /\ Len(stack) = 2

\* funcDecl elaborates the signature of o: an activation is at funcType
InFuncType(o) == \E k \in DOMAIN stack : stack[k].obj = o /\ stack[k].pc = "sig"

\* C25: funcDecl sets the type of the function to the new Signature before
\* it elaborates it, the function is black for the whole of funcType and
\* gets the colour it had at entry back afterwards; an objDecl call on the
\* function during the elaboration of its own signature returns at once
\* without a cycle error and without changing a type or a colour, and
\* objDecl is never entered for a grey Func.
C25_FuncHeldBlack ==
    /\ [][(AtPc("funcDecl") /\ ~panicked') =>
             /\ typ'[Top.obj] = Signature
             /\ color'[Top.obj] = black
             /\ stack'[Len(stack)].pc = "sig"
             /\ stack'[Len(stack)].saved = color[Top.obj]]_vars
    /\ [](\A o \in Objs : InFuncType(o) => (color[o] = black /\ typ[o] = Signature))
    /\ [][AtPc("sig") /\ Len(stack') = Len(stack) /\ stack'[Len(stack)].pc # "sig" =>
             /\ color'[Top.obj] = Top.saved
             /\ Top.saved = grey(Len(objPath) - 1)
             /\ objPath[Len(objPath)] = Top.obj]_vars
    /\ [][(At("objDecl", "enter") /\ InFuncType(Top.obj)) =>
             /\ Returns
             /\ errs' = errs /\ typ' = typ /\ color' = color
             /\ objPath' = objPath /\ ~panicked']_vars
    /\ [](~(At("objDecl", "enter") /\ objMap[Top.obj].kind = "Func"
                                   /\ color[Top.obj].c = "grey"))

\* the signature of a Func referred to the Func itself: the call has
\* returned, funcType goes on, nothing was reported
C25_Witness ==
    /\ AtPc("sig")
    /\ Top.n = 1 /\ Top.last = Top.obj
    /\ color[Top.obj] = black
    /\ Top.saved = grey(0)
    /\ errs = <<>>

\* all package-level objects are checked
AllChecked == stack = <<>> /\ \A o \in Objs : ~objMap[o].local => color[o] = black

\* C26 (as stated): for a variable declaration with several names and one
\* initialiser, initVars is called exactly once over the entire check,
\* whatever the initialiser refers to: never a second time, and once when
\* all objects are checked.
C26_InitVarsOnce ==
    /\ initVarsCalls <= 1
    /\ (AllChecked /\ lhsOf(objMap) # {} /\ ~panicked) => initVarsCalls = 1

\* the innermost validType activation is about the Named of another package
AtForeign == VRunning /\ VTop.t.k = "Named" /\ VTop.t.of = 0

-----------------------------------------------------------------------------
(* More properties of the importer *)

\* typAt is entered and the cache does not answer: doType runs
TypAtDecodes == IAt("typ", "start") /\ ~(ITop.off \in DOMAIN typCache
                    /\ (ITop.base = 0 \/ heap[typCache[ITop.off]].k # "Interface"))
\* the innermost typAt activation returns after doType has run
DecodedReturn ==
    /\ istack # <<>> /\ ITop.fn = "typ" /\ ~panicked
    /\ istack' = Front(istack)
    /\ (ITop.pc = "start" => TypAtDecodes)

ReadsConstraint(k) ==
    istack[k].fn = "decl" /\ istack[k].pc = "constraint"

\* typAt is entered for a type parameter whose constraint is being read
SelfReference ==
    /\ IAt("typ", "start")
    /\ ITop.off # 0
    /\ TopType.kind = "typeParam"
    /\ \E k \in DOMAIN istack : ReadsConstraint(k) /\ istack[k].name = TopType.name

\* the TypeParam under construction for name n: that of the innermost
\* activation reading its constraint
UnderConstruction(n) ==
    LET k == CHOOSE k \in DOMAIN istack :
                 /\ ReadsConstraint(k) /\ istack[k].name = n
                 /\ \A j \in DOMAIN istack :
                        (ReadsConstraint(j) /\ istack[j].name = n) => j <= k
    IN istack[k].ref

\* the P declaration is stored before its constraint is read
StoredBeforeConstraint ==
    [][(IAt("decl", "start") /\ ~Declared(ITop.name) /\ TopDecl.tag = "P") =>
         /\ ITop.name \in DOMAIN tparamIndex'
         /\ heap'[tparamIndex'[ITop.name]] = TypeObj("TypeParam", ITop.name, <<>>, 0)
         /\ tparamIndex'[ITop.name] \notin DOMAIN heap
         /\ Len(istack') = Len(istack) + 1
         /\ istack'[Len(istack)].pc = "constraint"
         /\ istack'[Len(istack)].ref = tparamIndex'[ITop.name]
         /\ istack'[Len(istack')].fn = "typ"]_vars

\* C29 (as stated): a P declaration stores its TypeParam in tparamIndex
\* before its constraint is read; a reference to the type parameter met
\* while its constraint is read returns the TypeParam under construction
\* and starts no second decode of the declaration.
C29_SelfReference ==
    /\ StoredBeforeConstraint
    /\ [][SelfReference =>
             /\ istack' = Front(istack)
             /\ iret' = UnderConstruction(TopType.name)]_vars
    /\ [](\A j, k \in DOMAIN istack :
              (ReadsConstraint(j) /\ ReadsConstraint(k) /\ istack[j].name = istack[k].name)
                  => j = k)

\* the interfaces the type decoder has made, in the order it made them
RECURSIVE InterfacesFrom(_)
InterfacesFrom(r) ==
    IF r > Len(heap) THEN <<>>
    ELSE (IF heap[r].k = "Interface" THEN <<r>> ELSE <<>>) \o InterfacesFrom(r + 1)

\* C30: no interface is Completed before the last top-level doDecl has
\* returned; after a successful import every interface the type decoder
\* has made was Completed exactly once, in the order of the decodes; after
\* a failed import none was.
C30_CompleteAtEnd ==
    /\ completed # <<>> => (inext = NDecl + 2 /\ istack = <<>> /\ imported = DeclNames)
    /\ (inext = NDecl + 2 /\ ~panicked) => completed = InterfacesFrom(1)
    /\ panicked => completed = <<>>

\* an import with two interfaces, the second decoded again for a base,
\* has Completed both
C30_Witness ==
    /\ inext = NDecl + 2
    /\ ~panicked
    /\ Len(completed) = 2
    /\ heap[completed[1]].of = 0
    /\ heap[completed[2]].of # 0
    /\ completed[1] \in {typCache[off] : off \in DOMAIN typCache}

\* the TypeParam objects made for the declaration n
TypeParamsOf(n) == {r \in DOMAIN heap : heap[r].k = "TypeParam" /\ heap[r].of = n}

\* C33 (as stated): during one import each type-parameter declaration
\* yields exactly one TypeParam: an entry of tparamIndex is never replaced
\* by another TypeParam, also when the loop over the sorted names reaches
\* the name of a type parameter that was imported on demand, and every
\* reference to the parameter resolves to that one object.
C33_OneTypeParam ==
    /\ [][\A n \in DOMAIN tparamIndex :
             n \in DOMAIN tparamIndex' /\ tparamIndex'[n] = tparamIndex[n]]_vars
    /\ [](\A n \in DeclNames : Cardinality(TypeParamsOf(n)) <= 1)
    /\ [](\A r \in DOMAIN heap : \A i \in DOMAIN heap[r].sub :
              heap[heap[r].sub[i]].k = "TypeParam" =>
                  heap[r].sub[i] = tparamIndex[heap[heap[r].sub[i]].of])

\* a validType activation has just been entered
VEntered == VRunning /\ VTop.i = 0

\* C34: in the validType runs started with an empty path, whenever an
\* activation is entered every Named whose info is marked is on its path,
\* so that neither panic of the marked case is reached; and when a
\* top-level validType call has returned, no Named is left marked.
C34_MarkedOnPath ==
    /\ ~panicked
    /\ VEntered => \A n \in Nameds : info[n] = "marked" => n \in Range(VTop.path)
    /\ vstack = <<>> => \A n \in Nameds : info[n] \in {"unknown", "valid", "invalid"}
    /\ (vstack = <<>> /\ vnext > NNamed) => \A n \in Nameds : info[n] \in {"valid", "invalid"}

\* an activation is entered for a marked Named that is the first of two on
\* its path: the cycle is about to be reported
C34_Witness ==
    /\ VEntered
    /\ VTop.t.k = "Named"
    /\ VTop.t.of # 0
    /\ info[VTop.t.of] = "marked"
    /\ Len(VTop.path) = 2
    /\ VTop.path[1] = VTop.t.of
    /\ info[VTop.path[2]] = "marked"

-----------------------------------------------------------------------------
(* Checker.declare *)

\* the number of calls of declare
MaxDeclares == 3

\* the names of the objects declared
ObjNames == {"_", "a", "b"}

InitDeclare ==
    /\ objs = <<>>
    /\ ids = <<>>
    /\ bound = [n \in ObjNames |-> 0]
    /\ scopePos = <<>>
    /\ defs = {}
    /\ declErrs = <<>>
    /\ ChkIdle
    /\ VTIdle
    /\ ImpIdle
    /\ HdrIdle
    /\ RdIdle
    /\ WalkIdle
    /\ PosIdle
    /\ SubIdle

\* Scope.Insert(obj): the object already bound to the name (0: none, and
\* then obj is bound to it)
Insert(name) == bound[name]

\* check.errorf(obj, _DuplicateDecl, "%s redeclared in this block", ...) and
\* reportAltDecl(alt), which reports if alt has a valid position
DuplicateErrors(obj, alt) ==
    <<[code |-> "DuplicateDecl", at |-> obj, msg |-> "redeclared"]>>
    \o IF objs[alt].posValid
       THEN <<[code |-> "DuplicateDecl", at |-> alt, msg |-> "other declaration"]>>
       ELSE <<>>

\* the call declare(scope, id, obj, pos): obj is a new object with the name
\* the caller gave it, id is nil or the identifier of obj
Call(name, posValid, id) ==
    /\ Len(objs) < MaxDeclares
    /\ objs' = Append(objs, [name |-> name, posValid |-> posValid])
    /\ ids' = Append(ids, id)

\* if id != nil { check.recordDef(id, obj) }
RecordDef(obj, id) == defs' = IF id THEN defs \cup {<<obj, obj>>} ELSE defs

\* obj.Name() != "_", alt := scope.Insert(obj); alt != nil: the errors, return
DeclareDuplicate_NoReturn ==
    \E name \in ObjNames \ {"_"}, posValid \in BOOLEAN, id \in BOOLEAN :
        LET obj == Len(objs) + 1 IN
        /\ Call(name, posValid, id)
        /\ Insert(name) # 0
        /\ declErrs' = declErrs \o DuplicateErrors(obj, Insert(name))
        /\ scopePos' = Append(scopePos, TRUE)
        /\ RecordDef(obj, id)
        /\ UNCHANGED bound
DeclareDuplicate ==
    \E name \in ObjNames \ {"_"}, posValid \in BOOLEAN, id \in BOOLEAN :
        LET obj == Len(objs) + 1 IN
        /\ Call(name, posValid, id)
        /\ Insert(name) # 0
        /\ declErrs' = declErrs \o DuplicateErrors(obj, Insert(name))
        /\ scopePos' = Append(scopePos, FALSE)
        /\ UNCHANGED <<bound, defs>>

\* obj.Name() != "_", scope.Insert(obj) == nil: obj.setScopePos(pos), and
\* the definition
DeclareInsert ==
    \E name \in ObjNames \ {"_"}, posValid \in BOOLEAN, id \in BOOLEAN :
        LET obj == Len(objs) + 1 IN
        /\ Call(name, posValid, id)
        /\ Insert(name) = 0
        /\ bound' = [bound EXCEPT ![name] = obj]
        /\ scopePos' = Append(scopePos, TRUE)
        /\ RecordDef(obj, id)
        /\ UNCHANGED declErrs

\* obj.Name() == "_": the definition only
DeclareBlank ==
    \E posValid \in BOOLEAN, id \in BOOLEAN :
        LET obj == Len(objs) + 1 IN
        /\ Call("_", posValid, id)
        /\ scopePos' = Append(scopePos, FALSE)
        /\ RecordDef(obj, id)
        /\ UNCHANGED <<bound, declErrs>>

\* the variables declare leaves alone
notDeclare == <<chkVars, vtVars, impVars, hdrVars, rdVars, walkVars, posVars, subVars>>

NextDeclare ==
    \/ DeclareDuplicate /\ UNCHANGED notDeclare
    \/ DeclareInsert /\ UNCHANGED notDeclare
    \/ DeclareBlank /\ UNCHANGED notDeclare

SpecDeclare == InitDeclare /\ [][NextDeclare]_vars

\* C20: a call of declare for an object with a non-blank name that the scope
\* binds already reports a DuplicateDecl error for the object, leaves the
\* scope as it is, and records neither a scope position for the object nor a
\* definition; for a free name the object is bound to the name and no error
\* is reported; an object named _ is never bound and never reported.
C20_Declare ==
    /\ [][Len(objs') = Len(objs) + 1 =>
             LET obj == Len(objs')
                 name == objs'[obj].name
             IN IF name = "_"
                THEN bound' = bound /\ declErrs' = declErrs
                ELSE IF bound[name] # 0
                THEN /\ Len(declErrs') > Len(declErrs)
                     /\ declErrs'[Len(declErrs) + 1].code = "DuplicateDecl"
                     /\ declErrs'[Len(declErrs) + 1].at = obj
                     /\ bound' = bound
                     /\ ~scopePos'[obj]
                     /\ defs' = defs
                ELSE /\ bound' = [bound EXCEPT ![name] = obj]
                     /\ declErrs' = declErrs]_vars
    /\ [](bound["_"] = 0)
    /\ [](\A i \in DOMAIN declErrs : objs[declErrs[i].at].name # "_")

\* a was declared, then declared again with an identifier, then _ was
\* declared with one: the first object is bound, both errors were reported,
\* and only the blank object has a definition
C20_Witness ==
    /\ Len(objs) = 3
    /\ objs[1].name = "a"
    /\ objs[2].name = "a"
    /\ objs[3].name = "_"
    /\ ids = <<FALSE, TRUE, TRUE>>
    /\ bound = [n \in ObjNames |-> IF n = "a" THEN 1 ELSE 0]
    /\ Len(declErrs) = 2
    /\ scopePos = <<TRUE, FALSE, FALSE>>
    /\ defs = {<<3, 3>>}

-----------------------------------------------------------------------------
(* importReader.pos: the positions of the declaration data *)

\* the longest declaration data read
MaxPosData == 5

\* the bytes the data is made of, each a number of its own: as an int64,
\* 0 is 0, 1 is -1, 2 is 1, 3 is -2, 4 is 2, 5 is -3 and 127 is -64
PosBytes == {0, 1, 2, 3, 4, 5, 127}

\* the magic delta of a new file; the constant is declared in bimport.go
deltaNewFile == -64

\* p.stringData: "" at offset 0, "a" at offset 1, "b" at offset 3
stringData == <<0, 1, 97, 1, 98>>

InitPos ==
    /\ posData \in SeqsUpTo(PosBytes, MaxPosData)
    /\ posVer \in {iexportVersionGo1_11, iexportVersionPosCol}
    /\ posOff = 0
    /\ prevFile = <<>>
    /\ prevLine = 0
    /\ prevColumn = 0
    /\ posRes = <<>>
    /\ posFault = FALSE
    /\ ChkIdle
    /\ VTIdle
    /\ ImpIdle
    /\ HdrIdle
    /\ RdIdle
    /\ WalkIdle
    /\ DeclIdle
    /\ SubIdle

\* r.int64() with the reader at byte off: the value, the bytes consumed and
\* whether binary.ReadVarint gave no error
int64At(data, off) ==
    LET u == Uvarint(data, off, 0, 0, 0)
        x == u.val \div 2
    IN [ok |-> u.err = "nil", val |-> IF u.val % 2 # 0 THEN -x - 1 ELSE x, n |-> u.n]

\* r.string() with the reader at byte off: r.p.stringAt(r.uint64())
stringRead(data, off) ==
    LET u == Uvarint(data, off, 0, 0, 0)
        str == stringAt(stringData, u.val)
    IN IF u.err # "nil" THEN [ok |-> FALSE, val |-> <<>>, n |-> u.n]
       ELSE [ok |-> str.ok, val |-> str.val, n |-> u.n]

\* the reader after errorf: the bytes of the failed read are gone
Failed(r, n) == [r EXCEPT !.off = @ + n, !.ok = FALSE]

\* func (r *importReader) posv0(); the sums of the deltas of MaxPosData bytes
\* stay far inside int64
posv0(data, r) ==
    LET delta == int64At(data, r.off) IN
    IF ~delta.ok THEN Failed(r, delta.n)
    ELSE IF delta.val # deltaNewFile
    THEN [r EXCEPT !.off = @ + delta.n, !.line = @ + delta.val]
    ELSE LET l == int64At(data, r.off + delta.n) IN
         IF ~l.ok THEN Failed(r, delta.n + l.n)
         ELSE IF l.val = -1
         THEN [r EXCEPT !.off = @ + delta.n + l.n, !.line = @ + deltaNewFile]
         ELSE LET file == stringRead(data, r.off + delta.n + l.n) IN
              IF ~file.ok THEN Failed(r, delta.n + l.n + file.n)
              ELSE [r EXCEPT !.off = @ + delta.n + l.n + file.n,
                             !.file = file.val, !.line = l.val]

\* func (r *importReader) posv1(): delta >> 1 is the floor of delta / 2 and
\* delta & 1 its remainder; what was added before a failed read stays added
posv1_WholeDelta(data, r) ==
    LET delta == int64At(data, r.off) IN
    IF ~delta.ok THEN Failed(r, delta.n)
    ELSE LET r1 == [r EXCEPT !.off = @ + delta.n, !.col = @ + delta.val] IN
         IF delta.val % 2 = 0 THEN r1
         ELSE LET delta2 == int64At(data, r1.off) IN
              IF ~delta2.ok THEN Failed(r1, delta2.n)
              ELSE LET r2 == [r1 EXCEPT !.off = @ + delta2.n,
                                        !.line = @ + (delta2.val \div 2)] IN
                   IF delta2.val % 2 = 0 THEN r2
                   ELSE LET file == stringRead(data, r2.off) IN
                        IF ~file.ok THEN Failed(r2, file.n)
                        ELSE [r2 EXCEPT !.off = @ + file.n, !.file = file.val]
posv1(data, r) ==
    LET delta == int64At(data, r.off) IN
    IF ~delta.ok THEN Failed(r, delta.n)
    ELSE LET r1 == [r EXCEPT !.off = @ + delta.n, !.col = @ + (delta.val \div 2)] IN
         IF delta.val % 2 = 0 THEN r1
         ELSE LET delta2 == int64At(data, r1.off) IN
              IF ~delta2.ok THEN Failed(r1, delta2.n)
              ELSE LET r2 == [r1 EXCEPT !.off = @ + delta2.n,
                                        !.line = @ + (delta2.val \div 2)] IN
                   IF delta2.val % 2 = 0 THEN r2
                   ELSE LET file == stringRead(data, r2.off) IN
                        IF ~file.ok THEN Failed(r2, file.n)
                        ELSE [r2 EXCEPT !.off = @ + file.n, !.file = file.val]

NoPos == [nopos |-> TRUE, file |-> <<>>, line |-> 0, col |-> 0]

\* func (r *importReader) pos() token.Pos
Pos ==
    /\ ~posFault
    /\ LET r0 == [off |-> posOff, file |-> prevFile, line |-> prevLine,
                  col |-> prevColumn, ok |-> TRUE]
           r == IF posVer >= 1 THEN posv1(posData, r0) ELSE posv0(posData, r0)
       IN /\ posOff' = r.off
          /\ prevFile' = r.file
          /\ prevLine' = r.line
          /\ prevColumn' = r.col
          /\ posFault' = ~r.ok
          /\ posRes' = IF ~r.ok THEN posRes
                       ELSE IF r.file = <<>> /\ r.line = 0 /\ r.col = 0
                       THEN Append(posRes, NoPos)
                       ELSE Append(posRes, [nopos |-> FALSE, file |-> r.file,
                                            line |-> r.line, col |-> r.col])
    /\ UNCHANGED <<posData, posVer>>

\* the variables pos leaves alone
notPos == <<chkVars, vtVars, impVars, hdrVars, rdVars, walkVars, declVars, subVars>>

NextPos == Pos /\ UNCHANGED notPos

SpecPos == InitPos /\ [][NextPos]_vars


\* a call of pos returned
PosReturned == Len(posRes') = Len(posRes) + 1

\* the reads of one call, in order: the first and the second int64, and
\* the file string after the two
FirstRead == int64At(posData, posOff)
SecondRead == int64At(posData, posOff + FirstRead.n)
FileRead == stringRead(posData, posOff + FirstRead.n + SecondRead.n).val

\* C31: every call of pos that returns leaves the reader's file, line and
\* column as the decoder of the format version says. In v1 the column grows
\* by delta >> 1; only if the low bit of delta is set a second delta is read,
\* whose >> 1 is added to the line and whose low bit decides whether a file
\* string is read and replaces the file. In v0 a delta other than
\* deltaNewFile is added to the line; otherwise a value l is read, l = -1
\* adds deltaNewFile to the line and any other l reads a file and sets the
\* line to l; the column never changes. The call yields NoPos exactly when
\* the file is empty and line and column are both 0 after the update.
C31_PosDecoder ==
    [][PosReturned =>
        /\ posVer >= 1 =>
            /\ prevColumn' = prevColumn + (FirstRead.val \div 2)
            /\ FirstRead.val % 2 = 0 =>
                /\ prevLine' = prevLine /\ prevFile' = prevFile
                /\ posOff' = posOff + FirstRead.n
            /\ FirstRead.val % 2 = 1 =>
                /\ prevLine' = prevLine + (SecondRead.val \div 2)
                /\ SecondRead.val % 2 = 0 =>
                    /\ prevFile' = prevFile
                    /\ posOff' = posOff + FirstRead.n + SecondRead.n
                /\ SecondRead.val % 2 = 1 =>
                    /\ prevFile' = FileRead
                    /\ posOff' > posOff + FirstRead.n + SecondRead.n
        /\ posVer < 1 =>
            /\ prevColumn' = prevColumn
            /\ FirstRead.val # deltaNewFile =>
                /\ prevLine' = prevLine + FirstRead.val /\ prevFile' = prevFile
                /\ posOff' = posOff + FirstRead.n
            /\ (FirstRead.val = deltaNewFile /\ SecondRead.val = -1) =>
                /\ prevLine' = prevLine + deltaNewFile /\ prevFile' = prevFile
                /\ posOff' = posOff + FirstRead.n + SecondRead.n
            /\ (FirstRead.val = deltaNewFile /\ SecondRead.val # -1) =>
                /\ prevLine' = SecondRead.val /\ prevFile' = FileRead
                /\ posOff' > posOff + FirstRead.n + SecondRead.n
        /\ posRes'[Len(posRes')].nopos
              <=> (prevFile' = <<>> /\ prevLine' = 0 /\ prevColumn' = 0)
        /\ ~posRes'[Len(posRes')].nopos =>
              posRes'[Len(posRes')] = [nopos |-> FALSE, file |-> prevFile',
                                       line |-> prevLine', col |-> prevColumn']
    ]_vars

\* two calls of v1 data have returned: the first read a file, the second
\* changed the line and kept the file
C31_Witness ==
    /\ posVer >= 1 /\ Len(posRes) = 2
    /\ ~posRes[1].nopos /\ posRes[1].file # <<>>
    /\ ~posRes[2].nopos /\ posRes[2].file = posRes[1].file
    /\ posRes[2].line # posRes[1].line

-----------------------------------------------------------------------------
(* The 'P' case of importReader.obj and parseSubscript *)

\* the longest name read
MaxName == 3

\* the runes the names are made of, as code points: the letter T and the
\* subscript digits 0, 1, 2 and 7 (U+2080 is 8320); a uint64 has WordBits
\* bits, so every one of these digits fits it and a run of two may not
NameRunes == {84, 8320, 8321, 8322, 8327}

InitSub ==
    /\ subName \in SeqsUpTo(NameRunes, MaxName)
    /\ subVer \in {iexportVersionGo1_11, iexportVersionGenerics}
    /\ subRes = [done |-> FALSE, err |-> "", name0 |-> <<>>, sub |-> 0, indexed |-> FALSE]
    /\ ChkIdle
    /\ VTIdle
    /\ ImpIdle
    /\ HdrIdle
    /\ RdIdle
    /\ WalkIdle
    /\ DeclIdle
    /\ PosIdle

\* the loop of parseSubscript from rune i on: if '₀' <= r && r < '₀'+10,
\* startsub is set once and sub = sub*10 + uint64(r-'₀')
RECURSIVE parseLoop(_, _, _, _)
parseLoop(name, i, sub, startsub) ==
    IF i > Len(name) THEN [sub |-> sub, startsub |-> startsub]
    ELSE IF 8320 <= name[i] /\ name[i] < 8320 + 10
    THEN parseLoop(name, i + 1, (sub * 10 + (name[i] - 8320)) % Pow2(WordBits),
                   IF startsub = -1 THEN i - 1 ELSE startsub)
    ELSE parseLoop(name, i + 1, sub, startsub)

\* func parseSubscript(name string) (string, uint64)
parseSubscript(name) ==
    LET l == parseLoop(name, 1, 0, -1)
    IN [name |-> IF l.startsub >= 0 THEN SubSeq(name, 1, l.startsub) ELSE name,
        sub |-> l.sub]

\* case 'P' of obj, up to r.p.tparamIndex[id] = t: errorf ends the import
ObjParseSubscript ==
    /\ ~subRes.done
    /\ subRes' =
        IF subVer < iexportVersionGenerics
        THEN [done |-> TRUE, err |-> "unexpected type param type", name0 |-> <<>>,
              sub |-> 0, indexed |-> FALSE]
        ELSE LET p == parseSubscript(subName) IN
             IF p.sub = 0
             THEN [done |-> TRUE, err |-> "missing subscript", name0 |-> p.name,
                   sub |-> p.sub, indexed |-> FALSE]
             ELSE [done |-> TRUE, err |-> "", name0 |-> p.name, sub |-> p.sub,
                   indexed |-> TRUE]
    /\ UNCHANGED <<subName, subVer>>

\* the variables the case leaves alone
notSub == <<chkVars, vtVars, impVars, hdrVars, rdVars, walkVars, declVars, posVars>>

NextSub == ObjParseSubscript /\ UNCHANGED notSub

SpecSub == InitSub /\ [][NextSub]_vars

IsSubscriptDigit(r) == 8320 <= r /\ r <= 8329
EndsInSubscript(name) == Len(name) > 0 /\ IsSubscriptDigit(name[Len(name)])
\* where the run of subscript digits a name ends in starts
RunStart(name) ==
    CHOOSE i \in 1..Len(name) :
        /\ \A j \in i..Len(name) : IsSubscriptDigit(name[j])
        /\ i > 1 => ~IsSubscriptDigit(name[i - 1])
\* the decimal value of a run of subscript digits
RECURSIVE DecimalValue(_)
DecimalValue(run) ==
    IF run = <<>> THEN 0
    ELSE DecimalValue(SubSeq(run, 1, Len(run) - 1)) * 10 + (run[Len(run)] - 8320)

\* C32: a P declaration of a version with type parameters is accepted if and
\* only if its name ends in a run of subscript digits; the decimal value of
\* the run is then the id and the name without the run the TypeName's name,
\* and a name that is not accepted fails with the missing subscript error.
C32_SubscriptAccepted ==
    (subRes.done /\ subVer >= iexportVersionGenerics) =>
        /\ subRes.err = "" <=> EndsInSubscript(subName)
        /\ subRes.err # "" => subRes.err = "missing subscript"
        /\ subRes.err = "" =>
            /\ subRes.name0 = SubSeq(subName, 1, RunStart(subName) - 1)
            /\ subRes.sub = DecimalValue(SubSeq(subName, RunStart(subName), Len(subName)))

=============================================================================
